---- MODULE Spec2Model ----
(***************************************************************************)
(* AegisLights MAPE-K controller (aegislights-controller/adaptation_manager)*)
(*                                                                         *)
(* The model follows MAPELoopController.run / _execute_mape_cycle and the  *)
(* Executor with its RollbackManager, the last-known-good (LKG) cache of   *)
(* the KnowledgeBase and the signal_configurations table.                  *)
(*                                                                         *)
(* Arithmetic.  The code computes on floats with the weights 1.0, 0.5,     *)
(* 10.0 and 20.0.  The model keeps every cost in half units (the value     *)
(* times CostScale), so that all quantities are integers; the degradation  *)
(* ratio of the rollback manager is scale free and is compared by cross    *)
(* multiplication, with the sign of the divisor taken into account.        *)
(***************************************************************************)
EXTENDS Integers, Sequences, FiniteSets, TLC

(***************************************************************************)
(* Bounds of the model                                                     *)
(***************************************************************************)
MaxCycle == 4          \* number of loop iterations explored
MaxFailedCollections == 1  \* number of failed Monitor calls explored
MaxRequests == 2       \* number of simulator requests explored
MaxStopCycle == 1      \* number of loop iterations explored with stop signals
MaxNetCycle == 3       \* number of cycles explored on the road network

(***************************************************************************)
(* Program constants                                                       *)
(***************************************************************************)
signalized_intersections == {"A", "B", "C", "D", "E"}
virtual_nodes == {"1", "2", "3", "4", "5", "6", "7", "8"}

rollback_window_size == 3
enable_rollback == TRUE
DegradationThresholdNum == 1      \* performance_degradation_threshold = 1/10
DegradationThresholdDen == 10
MaxOffset == 300
MaxPhaseId == 3
DefaultCycleLength == 80
CostScale == 2                    \* costs and utilities are kept times 2

None == <<>>                      \* Python None; Some(v) is <<v>>
Some(v) == <<v>>

(***************************************************************************)
(* Inputs: the network the simulator reports and the phase library loaded  *)
(* in the database.  One road A -> 1 is reported, idle or congested; the   *)
(* library holds two plans for each of A and B and none for C, D, E.       *)
(***************************************************************************)
EdgeKeys == {<<"A", "1">>}

RoadStates ==
    { [current_queue |-> 0,  current_delay |-> 0,  spillback_active |-> FALSE, incident_active |-> FALSE,
       free_flow_time |-> 30],
      [current_queue |-> 40, current_delay |-> 30, spillback_active |-> TRUE,  incident_active |-> FALSE,
       free_flow_time |-> 30] }

LibraryIntersections == {"A", "B"}
PlanNames == {"2phase_ns_priority", "2phase_ew_priority"}

PlanId(i, name) == <<i, name>>

\* PhaseLibrary.load_default_plans: phases.phase_id of each default plan
LibraryPhaseId(name) ==
    IF name = "2phase_ew_priority" THEN 2 ELSE 0

\* PhaseLibrary.get_plans: the validated plans stored for an intersection
get_plans(i) ==
    IF i \in LibraryIntersections
    THEN { [plan_id |-> PlanId(i, n), phase_id |-> LibraryPhaseId(n),
            cycle_length |-> DefaultCycleLength] : n \in PlanNames }
    ELSE {}

\* PhaseLibrary.validate_intersection
validate_intersection(i) == i \in signalized_intersections

Adaptation(i, pid, ph, off) ==
    [intersection_id |-> i, plan_id |-> pid, phase_id |-> ph,
     cycle_length |-> DefaultCycleLength, offset |-> off]

\* adaptation lists a caller other than the Planner hands to
\* Executor.execute (tests/test_execute_integration.py, tests/test_execute.py):
\* library plans for intersections inside and outside the reported network,
\* and the rejected shapes the tests use (a virtual node, phase_id 5, an
\* offset beyond the limit), alone or behind a valid adaptation
CallerBatches ==
    LET a_ns  == Adaptation("A", PlanId("A", "2phase_ns_priority"), 0, 0)
        a_ew  == Adaptation("A", PlanId("A", "2phase_ew_priority"), 2, 0)
        b_ns  == Adaptation("B", PlanId("B", "2phase_ns_priority"), 0, 30)
        virt  == Adaptation("1", PlanId("1", "test"), 0, 0)
        phase == Adaptation("A", PlanId("A", "invalid"), 5, 0)
        off   == Adaptation("B", PlanId("B", "2phase_ew_priority"), 2, 301)
    IN { <<a_ns>>, <<a_ew>>, <<b_ns>>, <<a_ew, b_ns>>,
         <<virt>>, <<a_ew, virt>>, <<phase>>, <<a_ns, off>> }

VARIABLES
    pc,                    \* stage of the control loop
    current_cycle,         \* MAPELoopController.current_cycle
    nodes,                 \* TrafficGraph.nodes
    edges,                 \* TrafficGraph.edges
    monitor_data,          \* result of Monitor.execute
    failed_collections,    \* Monitor.stats['failed_collections']
    client,                \* the request SimulatorClient is serving
    stop_signal,           \* what has ended the while condition of run()
    runtime_graph,         \* app.models.graph_runtime.RuntimeGraph and the call in progress on it
    cost_history,          \* Analyzer.cost_history
    graph_state,           \* rows of the graph_state table
    kb_call,               \* the KnowledgeBase call made last on graph_state (observer)
    mape_loop,             \* app.mape.loop.MAPELoop with its Planner and Executor
    analysis_result,       \* result of Analyzer.execute
    plan,                  \* plan handed to Executor.execute
    lkg_cache,             \* KnowledgeBase._cache['last_known_good']
    signal_configurations, \* rows of the signal_configurations table
    performance_window,    \* RollbackManager.performance_window (utilities)
    baseline_utility,      \* RollbackManager.baseline_utility
    execution_result,      \* value returned by Executor.execute
    exec_trace,            \* what the last Executor.execute did (observer)
    metrics,               \* metrics of the METRICS stage
    reward_log,            \* bandit.update_reward calls of this cycle (observer)
    bandit_state,          \* the bandit_state table, as get_bandit_stats reads it
    stages                 \* stages the current cycle has run (observer)

vars == <<pc, current_cycle, nodes, edges, monitor_data, failed_collections, client, stop_signal,
          runtime_graph, cost_history, graph_state, kb_call, mape_loop,
          analysis_result, plan,
          lkg_cache, signal_configurations, performance_window,
          baseline_utility, execution_result, exec_trace, metrics, reward_log,
          bandit_state, stages>>

(***************************************************************************)
(* Helpers                                                                 *)
(***************************************************************************)
RECURSIVE SumSeq(_)
SumSeq(s) == IF s = <<>> THEN 0 ELSE Head(s) + SumSeq(Tail(s))

RECURSIVE SumOver(_, _)
SumOver(S, f) ==
    IF S = {} THEN 0
    ELSE LET x == CHOOSE y \in S : TRUE IN f[x] + SumOver(S \ {x}, f)

\* sequences without repetition over a finite set, of length at most n
RECURSIVE DistinctSeqs(_, _)
DistinctSeqs(S, n) ==
    IF n = 0 \/ S = {} THEN { <<>> }
    ELSE { <<>> } \cup
         UNION { { <<x>> \o t : t \in DistinctSeqs(S \ {x}, n - 1) } : x \in S }

Permutations_(S) == { s \in DistinctSeqs(S, Cardinality(S)) : Len(s) = Cardinality(S) }

NoLKG == [kind |-> "none"]

NoRollback ==
    [ran |-> FALSE, ok |-> FALSE, lkg_configs |-> <<>>, restored |-> {},
     key_error |-> FALSE, api_raised |-> FALSE]

NoTrace ==
    [ran |-> FALSE, validated |-> FALSE, calls |-> {},
     outcomes |-> <<>>, check |-> "none", rollback |-> NoRollback,
     lkg_before |-> <<>>, nodes_before |-> <<>>]

\* SimulatorClient between two requests
ClientIdle == [status |-> "idle", endpoint |-> "none", attempt |-> 0, log |-> <<>>,
               result |-> "none", seen |-> "none", requests |-> 0]

\* RuntimeGraph.__init__: an empty DiGraph and a free Lock; no call in progress
NoTask == [fn |-> "none", step |-> "none", arg |-> <<>>]

EmptyRuntimeGraph == [lock |-> "free", nodes |-> <<>>, edges |-> <<>>, task |-> NoTask]

\* no call made on the graph_state table yet
NoCall == [fn |-> "none", written |-> <<>>, status |-> "none", returned |-> {}]

\* MAPELoop, Planner and Executor after their constructors: no metrics in
\* RecentGlobalMetrics, no action planned, no plan applied or safe, streak 0.
\* prev_plan, plan_step, observed, applied_at_poll, checks, rolled_back and
\* restored record what the steps did (observers).
NewMAPELoop ==
    [step |-> 0, metrics |-> None, contexts |-> {},
     last_actions |-> <<>>, actions |-> <<>>,
     last_applied_plan |-> <<>>, last_safe_plan |-> <<>>,
     low_utility_streak |-> 0,
     prev_plan |-> <<>>, plan_step |-> 0, observed |-> <<>>,
     applied_at_poll |-> <<>>, checks |-> <<>>, rolled_back |-> FALSE,
     restored |-> FALSE]

NoMonitorData == [snapshot |-> None, incidents |-> {}]

NoAnalysis == [edge_costs |-> <<>>, hotspots |-> {}, bypasses |-> <<>>, trends |-> <<>>,
               incidents |-> {}, edges_to_throttle |-> {},
               edges_to_favor |-> {}, coordination_groups |-> {}]

NoPlan == [source |-> "none", cycle |-> 0, adaptations |-> <<>>]

NoResult == [cycle |-> 0, applied |-> <<>>, rolled_back |-> FALSE, has_metrics |-> FALSE]

(***************************************************************************)
(* Construction: MAPELoopController.__init__, TrafficGraph.__init__,       *)
(* KnowledgeBase.__init__, RollbackManager.__init__                        *)
(***************************************************************************)
Constructed ==
    /\ current_cycle = 0
    /\ nodes = <<>>
    /\ edges = <<>>
    /\ monitor_data = NoMonitorData
    /\ failed_collections = 0
    /\ client = ClientIdle
    /\ stop_signal = "none"
    /\ runtime_graph = EmptyRuntimeGraph
    /\ cost_history = <<>>
    /\ graph_state = {}
    /\ kb_call = NoCall
    /\ mape_loop = NewMAPELoop
    /\ analysis_result = NoAnalysis
    /\ plan = NoPlan
    /\ lkg_cache = <<>>
    /\ signal_configurations = {}
    /\ performance_window = <<>>
    /\ baseline_utility = None
    /\ execution_result = NoResult
    /\ exec_trace = NoTrace
    /\ metrics = None
    /\ reward_log = <<>>
    /\ bandit_state = <<>>
    /\ stages = <<>>

Init == pc = "loop" /\ Constructed

(***************************************************************************)
(* MAPELoopController.run: loop head                                       *)
(***************************************************************************)
\* a loop head that does not test the while condition
StartCycleRegardless ==
    /\ pc = "loop"
    /\ current_cycle < MaxCycle
    /\ current_cycle' = current_cycle + 1
    /\ pc' = "monitor"
    /\ stages' = <<>>
    /\ UNCHANGED <<mape_loop, graph_state, kb_call, cost_history, runtime_graph, stop_signal, client, bandit_state, failed_collections, nodes, edges,
                   monitor_data, analysis_result, plan, lkg_cache,
                   signal_configurations, performance_window, baseline_utility,
                   execution_result, exec_trace, metrics, reward_log>>

StartCycle ==
    /\ pc = "loop"
    /\ stop_signal = "none"
    /\ current_cycle < MaxCycle
    /\ current_cycle' = current_cycle + 1
    /\ pc' = "monitor"
    /\ stages' = <<>>
    /\ UNCHANGED <<mape_loop, graph_state, kb_call, cost_history, runtime_graph, stop_signal, client, bandit_state, failed_collections, nodes, edges, monitor_data, analysis_result, plan, lkg_cache,
                   signal_configurations, performance_window, baseline_utility,
                   execution_result, exec_trace, metrics, reward_log>>

\* the while condition fails: stop() has cleared self.running or the
\* duration has elapsed, before this test or right at it
LoopExit ==
    /\ pc = "loop"
    /\ stop_signal' \in (IF stop_signal = "none" THEN {"stop", "duration"}
                                                 ELSE {stop_signal})
    /\ pc' = "exited"
    /\ UNCHANGED <<mape_loop, graph_state, kb_call, cost_history, runtime_graph, client, bandit_state, failed_collections, current_cycle, nodes, edges, monitor_data, analysis_result,
                   plan, lkg_cache, signal_configurations, performance_window,
                   baseline_utility, execution_result, exec_trace, metrics,
                   reward_log, stages>>

(***************************************************************************)
(* Monitor.execute                                                         *)
(***************************************************************************)
NewNode == [current_plan_id |-> None, offset |-> 0, cycle_length |-> 90]

\* TrafficGraph.add_node for every id of ids that is not yet a node
EnsureNodes(g, ids) ==
    [i \in (DOMAIN g) \cup ids |-> IF i \in DOMAIN g THEN g[i] ELSE NewNode]

\* Monitor._update_graph_state: create or update each reported road
UpdateGraphEdges(g, snap) ==
    [k \in (DOMAIN g) \cup (DOMAIN snap) |->
        IF k \in DOMAIN snap
        THEN [current_queue    |-> snap[k].current_queue,
              current_delay    |-> snap[k].current_delay,
              spillback_active |-> snap[k].spillback_active,
              incident_active  |-> snap[k].incident_active,
              free_flow_time   |-> IF k \in DOMAIN g THEN g[k].free_flow_time
                                   ELSE snap[k].free_flow_time,
              edge_cost        |-> IF k \in DOMAIN g THEN g[k].edge_cost ELSE 0]
        ELSE g[k]]

\* Monitor._detect_anomalies: the incident entries
DetectIncidents(snap) == { k \in DOMAIN snap : snap[k].incident_active }

MonitorOk ==
    /\ pc = "monitor"
    /\ \E snap \in [EdgeKeys -> RoadStates] :
          /\ nodes' = EnsureNodes(nodes, { k[1] : k \in DOMAIN snap } \cup
                                          { k[2] : k \in DOMAIN snap })
          /\ edges' = UpdateGraphEdges(edges, snap)
          /\ monitor_data' = [snapshot |-> Some(snap), incidents |-> DetectIncidents(snap)]
    /\ pc' = "analyze"
    /\ stages' = Append(stages, "MONITOR")
    /\ UNCHANGED <<mape_loop, graph_state, kb_call, cost_history, runtime_graph, stop_signal, client, bandit_state, failed_collections, current_cycle, analysis_result, plan, lkg_cache,
                   signal_configurations, performance_window, baseline_utility,
                   execution_result, exec_trace, metrics, reward_log>>

\* the simulator returned no snapshot: the failure is counted and
\* Monitor._empty_result is returned, graph untouched
MonitorFail ==
    /\ pc = "monitor"
    /\ failed_collections < MaxFailedCollections
    /\ monitor_data' = NoMonitorData
    /\ failed_collections' = failed_collections + 1
    /\ pc' = "analyze"
    /\ stages' = Append(stages, "MONITOR")
    /\ UNCHANGED <<mape_loop, graph_state, kb_call, cost_history, runtime_graph, stop_signal, client, bandit_state, current_cycle, nodes, edges, analysis_result, plan, lkg_cache,
                   signal_configurations, performance_window, baseline_utility,
                   execution_result, exec_trace, metrics, reward_log>>

\* the roads of snap restricted to the keys of done
RoadsOf(snap, done) == [k \in done |-> snap[k]]

\* a snapshot was collected and KnowledgeBase.update_edge_state raised while
\* _update_graph_state was at one of its roads: the roads reached so far
\* (done, the failing one included) are already in the graph, the handler of
\* Monitor.execute counts the failure and returns Monitor._empty_result
MonitorError ==
    /\ pc = "monitor"
    /\ failed_collections < MaxFailedCollections
    /\ \E snap \in [EdgeKeys -> RoadStates] :
       \E done \in (SUBSET (DOMAIN snap)) \ {{}} :
          /\ nodes' = EnsureNodes(nodes, { k[1] : k \in done } \cup { k[2] : k \in done })
          /\ edges' = UpdateGraphEdges(edges, RoadsOf(snap, done))
    /\ monitor_data' = NoMonitorData
    /\ failed_collections' = failed_collections + 1
    /\ pc' = "analyze"
    /\ stages' = Append(stages, "MONITOR")
    /\ UNCHANGED <<mape_loop, graph_state, kb_call, cost_history, runtime_graph, stop_signal, client, bandit_state, current_cycle, analysis_result, plan, lkg_cache,
                   signal_configurations, performance_window, baseline_utility,
                   execution_result, exec_trace, metrics, reward_log>>

(***************************************************************************)
(* Analyzer.execute                                                        *)
(***************************************************************************)
\* graph_utils.compute_edge_costs with the coefficients (1.0, 0.5, 10.0, 20.0)
\* and the indicator magnitudes 10 and 20, times CostScale
EdgeCost(e) ==
    CostScale * e.current_delay + e.current_queue
    + (IF e.spillback_active THEN CostScale * 100 ELSE 0)
    + (IF e.incident_active THEN CostScale * 400 ELSE 0)

\* a refresh that leaves the stored costs as they are
KeepEdgeCosts(g) == g

compute_edge_costs(g) ==
    [k \in DOMAIN g |-> [g[k] EXCEPT !.edge_cost = EdgeCost(g[k])]]

SetMax(S) == CHOOSE x \in S : \A y \in S : y <= x
SetMin(S) == CHOOSE x \in S : \A y \in S : x <= y

\* the roads in the order in which the simulator lists them, which is the
\* order in which Monitor._update_graph_state inserts them in
\* TrafficGraph.edges
RoadOrder ==
    << <<"A", "1">>, <<"1", "A">>, <<"A", "B">>, <<"B", "C">>, <<"A", "C">>, <<"C", "B">> >>

\* list(graph.edges): the keys of the graph in insertion order
EdgeSeq(g) == SelectSeq(RoadOrder, LAMBDA k : k \in DOMAIN g)

\* the j-th smallest (from 0) of the edge costs of the graph
KthCost(g, j) ==
    CHOOSE v \in { g[k].edge_cost : k \in DOMAIN g } :
        /\ Cardinality({ k \in DOMAIN g : g[k].edge_cost < v }) <= j
        /\ j < Cardinality({ k \in DOMAIN g : g[k].edge_cost <= v })

\* ten times np.percentile(costs, 70): linear interpolation between the
\* sorted costs around position 0.7 * (n - 1)
PercentileTimes10(g) ==
    LET n == Cardinality(DOMAIN g)
        i == (7 * (n - 1)) \div 10
        r == 7 * (n - 1) - 10 * i
    IN IF r = 0 THEN 10 * KthCost(g, i)
       ELSE 10 * KthCost(g, i) + r * (KthCost(g, i + 1) - KthCost(g, i))

\* graph_utils.identify_hotspots: edges at or above the 70th percentile of
\* the current costs
identify_hotspots(g) ==
    IF DOMAIN g = {} THEN {}
    ELSE { k \in DOMAIN g : 10 * g[k].edge_cost >= PercentileTimes10(g) }

\* nx_graph.predecessors(n) and nx_graph.successors(n) of the DiGraph that
\* _to_networkx builds: neighbours in the order of the edges
Predecessors(g, n) ==
    LET es == SelectSeq(EdgeSeq(g), LAMBDA k : k[2] = n) IN [j \in 1..Len(es) |-> es[j][1]]

Successors(g, n) ==
    LET es == SelectSeq(EdgeSeq(g), LAMBDA k : k[1] = n) IN [j \in 1..Len(es) |-> es[j][2]]

\* s[:n]
Prefix(s, n) == SubSeq(s, 1, IF Len(s) < n THEN Len(s) ELSE n)

GraphNodes(g) == { k[1] : k \in DOMAIN g } \cup { k[2] : k \in DOMAIN g }

\* the simple paths nx.shortest_simple_paths enumerates from s to t, as
\* node lists; for s = t the single path [s]
SimplePaths(g, s, t) ==
    IF s = t THEN { <<s>> }
    ELSE { q \in DistinctSeqs(GraphNodes(g), Cardinality(GraphNodes(g))) :
             /\ Len(q) >= 2 /\ q[1] = s /\ q[Len(q)] = t
             /\ \A j \in 1..(Len(q) - 1) : <<q[j], q[j + 1]>> \in DOMAIN g }

\* the path as its list of edges
EdgePath(q) == [j \in 1..(Len(q) - 1) |-> <<q[j], q[j + 1]>>]

\* weight of a path in the DiGraph (weight = edge_cost)
PathWeight(g, q) == SumSeq([j \in 1..(Len(q) - 1) |-> g[<<q[j], q[j + 1]>>].edge_cost])

\* list(nx.shortest_simple_paths(...))[:k]: the paths by increasing weight,
\* cut after k; paths of equal weight come in an order that the search
\* decides, so every order is a possible outcome
KShortestPaths(g, s, t, k) ==
    LET P == SimplePaths(g, s, t)
        m == IF Cardinality(P) < k THEN Cardinality(P) ELSE k
    IN { qs \in DistinctSeqs(P, m) :
           /\ Len(qs) = m
           /\ \A j \in 1..(m - 1) : PathWeight(g, qs[j]) <= PathWeight(g, qs[j + 1])
           /\ \A q \in P : (\A j \in 1..m : qs[j] # q) =>
                  (\A j \in 1..m : PathWeight(g, qs[j]) <= PathWeight(g, q)) }

\* the bypass record built from one path
BypassRecord(g, hotspot_edge, upstream, downstream, q) ==
    [source |-> upstream, destination |-> downstream, path |-> EdgePath(q),
     total_cost |-> PathWeight(g, q), bypasses |-> hotspot_edge, length |-> Len(q) - 1]

\* a scan that looks at the first edge of the path only
UsesHotspotFirstEdge(q, hotspot_edge) == Len(q) >= 2 /\ <<q[1], q[2]>> = hotspot_edge

\* the scan of the path for the hotspot edge
UsesHotspot(q, hotspot_edge) == \E j \in 1..(Len(q) - 1) : <<q[j], q[j + 1]>> = hotspot_edge

\* "if not uses_hotspot and len(edge_path) > 0"
KeepsPath(q, hotspot_edge) == ~UsesHotspot(q, hotspot_edge) /\ Len(q) - 1 > 0

\* the records one (upstream, downstream) pair contributes, for the
\* list of paths qs
RECURSIVE PairRecords(_, _, _, _, _)
PairRecords(g, hotspot_edge, upstream, downstream, qs) ==
    IF qs = <<>> THEN <<>>
    ELSE (IF KeepsPath(Head(qs), hotspot_edge)
          THEN << BypassRecord(g, hotspot_edge, upstream, downstream, Head(qs)) >>
          ELSE <<>>)
         \o PairRecords(g, hotspot_edge, upstream, downstream, Tail(qs))

\* the (hotspot, upstream, downstream) triples in the order of the three
\* nested loops: the first five hotspots, two upstream and two downstream
\* candidates each
RECURSIVE HotspotTriples(_, _)
HotspotTriples(g, hotspots) ==
    IF hotspots = <<>> THEN <<>>
    ELSE LET h  == Head(hotspots)
             us == Prefix(Predecessors(g, h[1]), 2)
             ds == Prefix(Successors(g, h[2]), 2)
             n  == Len(us) * Len(ds)
         IN [j \in 1..n |-> <<h, us[((j - 1) \div Len(ds)) + 1], ds[((j - 1) % Len(ds)) + 1]>>]
            \o HotspotTriples(g, Tail(hotspots))

RECURSIVE BypassesOfTriples(_, _, _)
BypassesOfTriples(g, k, triples) ==
    IF triples = <<>> THEN { <<>> }
    ELSE LET t == Head(triples) IN
         { PairRecords(g, t[1], t[2], t[3], qs) \o rest :
             qs \in KShortestPaths(g, t[2], t[3], k),
             rest \in BypassesOfTriples(g, k, Tail(triples)) }

k_shortest_paths == 3

\* graph_utils.find_k_shortest_paths: the lists of bypass records it can
\* return for the hotspot list
find_k_shortest_paths(g, node_ids, k, hotspots) ==
    IF hotspots = <<>> \/ Cardinality(node_ids) < 2 THEN { <<>> }
    ELSE BypassesOfTriples(g, k, HotspotTriples(g, Prefix(hotspots, 5)))

history_window == 10

\* Analyzer._update_cost_history: the new cost is appended to the history
\* of each edge, which keeps its last history_window entries
update_cost_history(hist, g) ==
    [k \in (DOMAIN hist) \cup (DOMAIN g) |->
        IF k \in DOMAIN g
        THEN LET h == Append(IF k \in DOMAIN hist THEN hist[k] ELSE <<>>, g[k].edge_cost)
             IN IF Len(h) > history_window THEN Tail(h) ELSE h
        ELSE hist[k]]

RECURSIVE Pow10(_)
Pow10(n) == IF n = 0 THEN 1 ELSE 10 * Pow10(n - 1)

\* exponential smoothing with alpha = 0.3: the j-th smoothed value of the
\* history, times 10^(j-1)
RECURSIVE Smoothed(_, _)
Smoothed(h, j) ==
    IF j = 1 THEN h[1]
    ELSE 3 * h[j] * Pow10(j - 2) + 7 * Smoothed(h, j - 1)

\* the trend of one history: the slope between the last and the third last
\* smoothed value against 1.0 and -1.0 (costs are kept times CostScale)
TrendOf(h) ==
    IF Len(h) < 3 THEN "stable"
    ELSE LET n == Len(h)
             slope == Smoothed(h, n) - 100 * Smoothed(h, n - 2)
         IN IF slope > CostScale * Pow10(n - 1) THEN "increasing"
            ELSE IF slope < 0 - CostScale * Pow10(n - 1) THEN "decreasing"
            ELSE "stable"

\* graph_utils.predict_trends
predict_trends(g, hist) ==
    [k \in DOMAIN g |-> IF k \in DOMAIN hist THEN TrendOf(hist[k]) ELSE "stable"]

\* whether a and b are at most three hops apart in the undirected graph
\* of cluster_intersections
Within3Hops(g, a, b) ==
    LET adj(x, y) == <<x, y>> \in DOMAIN g \/ <<y, x>> \in DOMAIN g
        N == GraphNodes(g)
    IN \/ a = b
       \/ adj(a, b)
       \/ \E x \in N : adj(a, x) /\ adj(x, b)
       \/ \E x, y \in N : adj(a, x) /\ adj(x, y) /\ adj(y, b)

\* graph_utils.cluster_intersections: greedy grouping of the ids in the
\* order of the list
RECURSIVE ClusterFrom(_, _, _, _)
ClusterFrom(g, ids, j, visited) ==
    IF j > Len(ids) THEN {}
    ELSE IF ids[j] \in visited \/ ids[j] \notin GraphNodes(g)
         THEN ClusterFrom(g, ids, j + 1, visited)
         ELSE LET members == { ids[j] } \cup
                             { ids[m] : m \in { m \in 1..Len(ids) :
                                  /\ ids[m] # ids[j] /\ ids[m] \notin visited
                                  /\ ids[m] \in GraphNodes(g)
                                  /\ Within3Hops(g, ids[j], ids[m]) } }
              IN (IF Cardinality(members) >= 2 THEN { members } ELSE {})
                 \cup ClusterFrom(g, ids, j + 1, visited \cup members)

cluster_intersections(g, ids) ==
    IF Len(ids) < 2 THEN {} ELSE ClusterFrom(g, ids, 1, {})

\* the edges of the bypass paths
BypassEdges(bypasses) ==
    UNION { { bypasses[j].path[m] : m \in 1..Len(bypasses[j].path) } : j \in 1..Len(bypasses) }

\* 'adaptation_needed' of Analyzer._determine_targets
adaptation_needed(ar) == ar.edges_to_throttle # {} \/ ar.edges_to_favor # {}

\* Analyzer.execute without its database writes: costs, cost history,
\* hotspots, bypass routes, trends, incidents, targets
\* (Analyzer._determine_targets) and coordination groups
\* (Analyzer._identify_coordination_groups, the affected intersections
\* being listed in the order a set iterates)
AnalyzerResults(g, node_ids, hist, incident_keys) ==
    LET hs       == identify_hotspots(g)
        hotspots == SelectSeq(EdgeSeq(g), LAMBDA k : k \in hs)
        inc      == { k \in incident_keys : k \in DOMAIN g }
    IN UNION {
         LET favor    == BypassEdges(bp) \ hs
             throttle == hs \cup inc
             affected == { k[1] : k \in throttle \cup favor }
         IN { [edge_costs |-> [k \in DOMAIN g |-> g[k].edge_cost],
               hotspots |-> hs, bypasses |-> bp,
               trends |-> predict_trends(g, hist),
               incidents |-> inc,
               edges_to_throttle |-> throttle,
               edges_to_favor |-> favor,
               coordination_groups |-> cluster_intersections(g, order)] :
              order \in Permutations_(affected) }
         : bp \in find_k_shortest_paths(g, node_ids, k_shortest_paths, hotspots) }

Analyze ==
    /\ pc = "analyze"
    /\ edges' = compute_edge_costs(edges)
    /\ cost_history' = update_cost_history(cost_history, edges')
    /\ analysis_result' \in AnalyzerResults(edges', DOMAIN nodes, cost_history', monitor_data.incidents)
    /\ pc' = "plan"
    /\ stages' = Append(stages, "ANALYZE")
    /\ UNCHANGED <<mape_loop, graph_state, kb_call, runtime_graph, stop_signal, client, bandit_state, failed_collections, current_cycle, nodes, monitor_data, plan, lkg_cache,
                   signal_configurations, performance_window, baseline_utility,
                   execution_result, exec_trace, metrics, reward_log>>

\* KnowledgeBase.log_decision raises inside Analyzer.execute (_log_decision
\* or store_analysis_result): the edge costs are already in the graph, the
\* exception leaves Analyzer.execute and _execute_mape_cycle, run() re-raises
AnalyzeWriteRaises ==
    /\ pc = "analyze"
    /\ edges' = compute_edge_costs(edges)
    /\ cost_history' = update_cost_history(cost_history, edges')
    /\ pc' = "crashed"
    /\ stages' = Append(stages, "ANALYZE")
    /\ UNCHANGED <<mape_loop, graph_state, kb_call, runtime_graph, stop_signal, client, bandit_state, failed_collections, current_cycle, nodes, monitor_data,
                   analysis_result, plan, lkg_cache, signal_configurations,
                   performance_window, baseline_utility, execution_result,
                   exec_trace, metrics, reward_log>>

(***************************************************************************)
(* Planner.execute                                                         *)
(***************************************************************************)
\* Planner._get_intersections_needing_updates
GetIntersectionsNeedingUpdates(ar) ==
    LET fromThrottle == { k[1] : k \in ar.edges_to_throttle } \ virtual_nodes
        fromFavor    == { k[1] : k \in ar.edges_to_favor } \ virtual_nodes
        fromGroups   == (UNION ar.coordination_groups) \ virtual_nodes
        fromIncident == { k[1] : k \in ar.incidents } \ virtual_nodes
        found        == fromThrottle \cup fromFavor \cup fromGroups \cup fromIncident
        intersections == IF found = {} THEN signalized_intersections ELSE found
    IN intersections \cap signalized_intersections

\* intersections for which Planner.execute emits an adaptation
Plannable(ar) ==
    { i \in GetIntersectionsNeedingUpdates(ar) :
        validate_intersection(i) /\ get_plans(i) # {} }

\* the intersections of a bypass path, each once, in the order of the path
RECURSIVE UniqueNodes(_, _)
UniqueNodes(path, seen) ==
    IF path = <<>> THEN <<>>
    ELSE LET e == Head(path)
             new_from == IF e[1] \in seen THEN <<>> ELSE << e[1] >>
             new_to   == IF e[2] \in seen \/ e[2] = e[1] THEN <<>> ELSE << e[2] >>
         IN new_from \o new_to \o UniqueNodes(Tail(path), seen \cup {e[1], e[2]})

\* CoordinationPlanner._identify_coordination_groups: one group per bypass
\* route with at least two signalised intersections
RECURSIVE CoordinationGroups(_)
CoordinationGroups(bypasses) ==
    IF bypasses = <<>> THEN <<>>
    ELSE LET signalized == SelectSeq(UniqueNodes(Head(bypasses).path, {}),
                                     LAMBDA n : n \in signalized_intersections)
         IN (IF Head(bypasses).path # <<>> /\ Len(signalized) >= 2
             THEN << signalized >> ELSE <<>>)
            \o CoordinationGroups(Tail(bypasses))

\* index of the first adaptation of the intersection, 0 when there is none
AdaptationIndex(adaptations, id) ==
    IF \E k \in 1..Len(adaptations) : adaptations[k].intersection_id = id
    THEN SetMin({ k \in 1..Len(adaptations) : adaptations[k].intersection_id = id })
    ELSE 0

\* travel time added between two consecutive members: the free-flow time
\* of the edge plus 30% of its current delay, or 20 s without an edge
TravelTime(g, from, to) ==
    IF <<from, to>> \in DOMAIN g
    THEN g[<<from, to>>].free_flow_time
         + (IF g[<<from, to>>].current_delay > 0
            THEN (3 * g[<<from, to>>].current_delay) \div 10 ELSE 0)
    ELSE 20

\* CoordinationPlanner._calculate_offsets, from member i of the group on;
\* a member without adaptation is passed over by "continue", before the
\* travel time to the next member is added
RECURSIVE CalculateOffsetsFrom(_, _, _, _, _)
CalculateOffsetsFrom(g, group, i, cumulative_offset, adaptations) ==
    IF i > Len(group) THEN adaptations
    ELSE LET idx == AdaptationIndex(adaptations, group[i]) IN
         IF idx = 0
         THEN CalculateOffsetsFrom(g, group, i + 1, cumulative_offset, adaptations)
         ELSE CalculateOffsetsFrom(g, group, i + 1,
                 IF i < Len(group)
                 THEN cumulative_offset + TravelTime(g, group[i], group[i + 1])
                 ELSE cumulative_offset,
                 [adaptations EXCEPT ![idx].offset = cumulative_offset])

calculate_offsets(g, group, adaptations) == CalculateOffsetsFrom(g, group, 1, 0, adaptations)

RECURSIVE CoordinateGroups(_, _, _)
CoordinateGroups(g, groups, adaptations) ==
    IF groups = <<>> THEN adaptations
    ELSE CoordinateGroups(g, Tail(groups), calculate_offsets(g, Head(groups), adaptations))

\* CoordinationPlanner.apply_coordination (coordination_enabled = True)
apply_coordination(g, adaptations, ar) ==
    IF ar.bypasses = <<>> THEN adaptations
    ELSE CoordinateGroups(g, CoordinationGroups(ar.bypasses), adaptations)

\* Planner.execute without its database writes.  The plan of each
\* intersection is whichever library plan the bandit or the incident
\* handler returns; the intersections come in the order a set iterates.
\* Outside incident mode, two or more adaptations are coordinated.
PlannerExecute ==
    /\ pc = "plan"
    /\ \E order \in Permutations_(Plannable(analysis_result)) :
       \E choice \in [Plannable(analysis_result) -> UNION { get_plans(i) : i \in LibraryIntersections }] :
          /\ \A i \in DOMAIN choice : choice[i] \in get_plans(i)
          /\ LET adaptations ==
                    [k \in 1..Len(order) |->
                       Adaptation(order[k], choice[order[k]].plan_id,
                                  choice[order[k]].phase_id, 0)]
                  is_incident_mode == analysis_result.incidents # {}
             IN plan' = [source |-> "planner", cycle |-> current_cycle,
                         adaptations |->
                           IF ~is_incident_mode /\ Len(adaptations) > 1
                           THEN apply_coordination(edges, adaptations, analysis_result)
                           ELSE adaptations]
    /\ pc' = "execute"
    /\ stages' = Append(stages, "PLAN")
    /\ UNCHANGED <<mape_loop, graph_state, kb_call, cost_history, runtime_graph, stop_signal, client, bandit_state, failed_collections, current_cycle, nodes, edges, monitor_data, analysis_result,
                   lkg_cache, signal_configurations, performance_window,
                   baseline_utility, execution_result, exec_trace, metrics,
                   reward_log>>

\* KnowledgeBase.log_decision raises inside Planner.execute (_log_decision
\* or store_plan_result): no plan is returned, run() re-raises
PlanWriteRaises ==
    /\ pc = "plan"
    /\ pc' = "crashed"
    /\ stages' = Append(stages, "PLAN")
    /\ UNCHANGED <<mape_loop, graph_state, kb_call, cost_history, runtime_graph, stop_signal, client, bandit_state, failed_collections, current_cycle, nodes, edges, monitor_data,
                   analysis_result, plan, lkg_cache, signal_configurations,
                   performance_window, baseline_utility, execution_result,
                   exec_trace, metrics, reward_log>>

\* a plan built by the caller stands in for the Planner's output
CallerPlan ==
    /\ pc = "plan"
    /\ \E b \in CallerBatches :
          plan' = [source |-> "caller", cycle |-> current_cycle, adaptations |-> b]
    /\ pc' = "execute"
    /\ stages' = Append(stages, "PLAN")
    /\ UNCHANGED <<mape_loop, graph_state, kb_call, cost_history, runtime_graph, stop_signal, client, bandit_state, failed_collections, current_cycle, nodes, edges, monitor_data, analysis_result,
                   lkg_cache, signal_configurations, performance_window,
                   baseline_utility, execution_result, exec_trace, metrics,
                   reward_log>>

(***************************************************************************)
(* Executor: validation and apply                                          *)
(***************************************************************************)
\* outcome of one SimulatorAPI.update_signal_timing call: it returns True,
\* returns False, or raises
ApiOutcomes == {"ok", "fail", "raise"}

\* outcome of one iteration of the apply loop: that of the simulator call
\* and, when the call succeeded, that of KnowledgeBase.store_signal_config
ApplyOutcomes ==
    { [api |-> "ok", store |-> "ok"], [api |-> "ok", store |-> "raise"],
      [api |-> "fail", store |-> "none"], [api |-> "raise", store |-> "none"] }

\* SafetyValidator.validate_plan
validate_plan(i, pid) == TRUE

\* the checks without the one on the intersection
ValidAdaptationAnyNode(a) ==
    /\ a.phase_id >= 0 /\ a.phase_id <= MaxPhaseId
    /\ validate_plan(a.intersection_id, a.plan_id)
    /\ a.offset >= 0 /\ a.offset <= MaxOffset

\* Executor._validate_adaptations: the checks made on one adaptation
ValidAdaptation(a) ==
    /\ a.intersection_id \in signalized_intersections
    /\ a.phase_id >= 0 /\ a.phase_id <= MaxPhaseId
    /\ validate_plan(a.intersection_id, a.plan_id)
    /\ a.offset >= 0 /\ a.offset <= MaxOffset

\* a validation that looks at the first adaptation only
ValidateFirstOnly(adaptations) ==
    adaptations # <<>> => ValidAdaptation(adaptations[1])

\* Executor._validate_adaptations: False at the first adaptation that
\* fails a check
ValidateAdaptations(adaptations) ==
    \A k \in 1..Len(adaptations) : ValidAdaptation(adaptations[k])

SimCall(a, kind) ==
    [intersection_id |-> a.intersection_id, plan_id |-> a.plan_id,
     phase_id |-> a.phase_id, kind |-> kind]

ConfigRow(a, cycle) ==
    [intersection_id |-> a.intersection_id, cycle_number |-> cycle,
     plan_id |-> a.plan_id, phase_id |-> a.phase_id,
     cycle_length |-> a.cycle_length, offset |-> a.offset]

\* the graph update of Executor._apply_adaptations for one adaptation
SetNodePlan(g, a) ==
    IF a.intersection_id \in DOMAIN g
    THEN [g EXCEPT ![a.intersection_id] =
            [current_plan_id |-> Some(a.plan_id), offset |-> a.offset,
             cycle_length |-> a.cycle_length]]
    ELSE g

\* db_utils.insert_signal_config.  The only query on the table returns the
\* newest row of an intersection, so the older rows of the intersection are
\* not kept.
insert_signal_config(rows, r) ==
    { q \in rows : q.intersection_id # r.intersection_id } \cup {r}

\* one iteration of the loop of Executor._apply_adaptations
ApplyOne(st, a, cycle, o) ==
    LET called == [st EXCEPT !.calls = @ \cup {SimCall(a, "apply")}] IN
    IF o.api # "ok" THEN called
    ELSE IF o.store # "ok"
         THEN [called EXCEPT !.nodes = SetNodePlan(@, a)]
         ELSE [called EXCEPT !.nodes = SetNodePlan(@, a),
                             !.rows = insert_signal_config(@, ConfigRow(a, cycle)),
                             !.applied = Append(@, a)]

\* Executor._apply_adaptations
RECURSIVE ApplyFrom(_, _, _, _, _)
ApplyFrom(k, st, adaptations, cycle, outcomes) ==
    IF k > Len(adaptations) THEN st
    ELSE ApplyFrom(k + 1, ApplyOne(st, adaptations[k], cycle, outcomes[k]),
                   adaptations, cycle, outcomes)

ApplyAdaptations(adaptations, cycle, outcomes, g, rows) ==
    ApplyFrom(1, [nodes |-> g, rows |-> rows, applied |-> <<>>, calls |-> {}],
              adaptations, cycle, outcomes)

(***************************************************************************)
(* MetricsCalculator and RollbackManager                                   *)
(***************************************************************************)
\* divisor shared by the averages, so that they stay integers
AvgDen == Cardinality(EdgeKeys)

\* MetricsCalculator.calculate over the edges of the runtime graph
MetricsCalculate(g) ==
    LET n == Cardinality(DOMAIN g) IN
    [avg_delay        |-> IF n = 0 THEN 0
                          ELSE (AvgDen * SumOver(DOMAIN g, [k \in DOMAIN g |-> g[k].current_delay])) \div n,
     avg_queue        |-> IF n = 0 THEN 0
                          ELSE (AvgDen * SumOver(DOMAIN g, [k \in DOMAIN g |-> g[k].current_queue])) \div n,
     network_cost     |-> SumOver(DOMAIN g, [k \in DOMAIN g |-> g[k].edge_cost]),
     total_spillbacks |-> Cardinality({ k \in DOMAIN g : g[k].spillback_active }),
     total_edges      |-> n]

\* RollbackManager._calculate_utility, times CostScale * AvgDen
CalculateUtility(m) ==
    0 - ( AvgDen * m.network_cost
          + CostScale * m.avg_delay
          + m.avg_queue
          + CostScale * AvgDen * 10 * m.total_spillbacks )

\* deque(maxlen=rollback_window_size).append
WindowAppend(w, u) ==
    IF Len(w) >= rollback_window_size THEN Append(Tail(w), u) ELSE Append(w, u)

\* (baseline - avg_recent) / baseline > performance_degradation_threshold,
\* for baseline # 0
DegradationExceeds(baseline, w) ==
    LET den == Len(w) * baseline
        num == Len(w) * baseline - SumSeq(w)
    IN IF den > 0
       THEN DegradationThresholdDen * num > DegradationThresholdNum * den
       ELSE DegradationThresholdDen * num < DegradationThresholdNum * den

\* a check that takes every utility as the new baseline
CheckAdoptsEveryUtility(w, baseline, utility) ==
    LET w2 == WindowAppend(w, utility) IN
    IF Len(w2) < rollback_window_size
    THEN [window |-> w2, baseline |-> baseline, result |-> "false"]
    ELSE [window |-> w2, baseline |-> Some(utility), result |-> "false"]

\* RollbackManager.check_for_degradation; result is "false", "true" or
\* "ZeroDivisionError"
check_for_degradation(w, baseline, utility) ==
    LET w2 == WindowAppend(w, utility) IN
    IF Len(w2) < rollback_window_size
    THEN [window |-> w2, baseline |-> baseline, result |-> "false"]
    ELSE IF baseline = None
    THEN [window |-> w2, baseline |-> Some(utility), result |-> "false"]
    ELSE IF baseline[1] = 0
    THEN [window |-> w2, baseline |-> baseline, result |-> "ZeroDivisionError"]
    ELSE IF DegradationExceeds(baseline[1], w2)
    THEN [window |-> w2, baseline |-> baseline, result |-> "true"]
    ELSE IF utility > baseline[1]
    THEN [window |-> w2, baseline |-> Some(utility), result |-> "false"]
    ELSE [window |-> w2, baseline |-> baseline, result |-> "false"]

(***************************************************************************)
(* KnowledgeBase: last-known-good                                          *)
(***************************************************************************)
\* db_utils.get_last_known_good_config: the newest stored row of the
\* intersection (every stored row has applied = 1 and rolled_back = 0)
get_last_known_good_config(rows, i) ==
    LET mine == { r \in rows : r.intersection_id = i } IN
    IF mine = {} THEN NoLKG
    ELSE [kind |-> "row",
          row |-> CHOOSE r \in mine : \A q \in mine : q.cycle_number <= r.cycle_number]

\* value returned by KnowledgeBase.get_last_known_good
LKGValue(cache, rows, i) ==
    IF i \in DOMAIN cache THEN cache[i] ELSE get_last_known_good_config(rows, i)

\* the cycle number of a record returned by get_last_known_good: the
\* 'cycle' of a cache record, the cycle_number column of a database row
LKGCycle(v) == IF v.kind = "row" THEN v.row.cycle_number ELSE v.cycle

\* a lookup that evicts the entry it reads
LKGCacheEvict(cache, rows, i) ==
    [j \in (DOMAIN cache) \ {i} |-> cache[j]]

\* cache after KnowledgeBase.get_last_known_good (a row found in the
\* database is put in the cache)
LKGCacheAfterGet(cache, rows, i) ==
    IF i \in DOMAIN cache \/ get_last_known_good_config(rows, i) = NoLKG
    THEN cache
    ELSE [j \in (DOMAIN cache) \cup {i} |->
            IF j = i THEN get_last_known_good_config(rows, i) ELSE cache[j]]

\* an update that replaces the cache by the entries of the list
ReplaceLastKnownGood(cache, cycle, adaptations) ==
    [j \in { adaptations[k].intersection_id : k \in 1..Len(adaptations) } |->
        [kind |-> "lkg", cycle |-> cycle,
         config |-> adaptations[CHOOSE k \in 1..Len(adaptations) :
                                   adaptations[k].intersection_id = j]]]

\* an update that writes nothing
KeepLastKnownGood(cache, cycle, adaptations) == cache

\* KnowledgeBase.update_last_known_good: every adaptation of the list
\* overwrites the entry of its intersection
update_last_known_good(cache, cycle, adaptations) ==
    LET ids == { adaptations[k].intersection_id : k \in 1..Len(adaptations) }
        last(i) == SetMax({ k \in 1..Len(adaptations) :
                              adaptations[k].intersection_id = i })
    IN [j \in (DOMAIN cache) \cup ids |->
          IF j \in ids
          THEN [kind |-> "lkg", cycle |-> cycle, config |-> adaptations[last(j)]]
          ELSE cache[j]]

(***************************************************************************)
(* Executor._execute_rollback                                              *)
(***************************************************************************)
\* first loop: collect lkg['config'] of every signalised node of the graph,
\* in the iteration order of the set; a record without a 'config' key (a
\* database row) raises KeyError
RECURSIVE CollectLKG(_, _, _)
CollectLKG(order, st, rows) ==
    IF order = <<>> \/ st.key_error THEN st
    ELSE LET i == Head(order)
             v == LKGValue(st.cache, rows, i)
             c2 == LKGCacheAfterGet(st.cache, rows, i)
         IN IF v = NoLKG
            THEN CollectLKG(Tail(order), [st EXCEPT !.cache = c2], rows)
            ELSE IF v.kind = "row"
            THEN [st EXCEPT !.cache = c2, !.key_error = TRUE]
            ELSE CollectLKG(Tail(order),
                            [st EXCEPT !.cache = c2,
                                       !.configs = Append(@, v.config)], rows)

\* the graph update of the rollback: plan and offset only
RestoreNodePlan(g, a) ==
    IF a.intersection_id \in DOMAIN g
    THEN [g EXCEPT ![a.intersection_id].current_plan_id = Some(a.plan_id),
                   ![a.intersection_id].offset = a.offset]
    ELSE g

\* second loop: re-apply every collected configuration; a raising call
\* leaves the loop through the outer except
RECURSIVE ReapplyFrom(_, _, _, _)
ReapplyFrom(k, st, configs, api) ==
    IF k > Len(configs) \/ st.api_raised THEN st
    ELSE LET a == configs[k]
             called == [st EXCEPT !.calls = @ \cup {SimCall(a, "rollback")}]
         IN IF api[k] = "ok"
            THEN ReapplyFrom(k + 1,
                    [called EXCEPT !.nodes = RestoreNodePlan(@, a),
                                   !.restored = @ \cup {a.intersection_id}],
                    configs, api)
            ELSE IF api[k] = "fail"
            THEN ReapplyFrom(k + 1, called, configs, api)
            ELSE [called EXCEPT !.api_raised = TRUE]

ExecuteRollback(order, api, g, cache, rows) ==
    LET col == CollectLKG(order, [cache |-> cache, configs |-> <<>>, key_error |-> FALSE], rows)
        start == [nodes |-> g, calls |-> {}, restored |-> {}, api_raised |-> FALSE]
        re == IF col.key_error \/ col.configs = <<>> THEN start
              ELSE ReapplyFrom(1, start, col.configs, api)
    IN [nodes |-> re.nodes, cache |-> col.cache, calls |-> re.calls,
        info |-> [ran |-> TRUE,
                  ok |-> ~col.key_error /\ ~re.api_raised /\ re.restored # {},
                  lkg_configs |-> col.configs, restored |-> re.restored,
                  key_error |-> col.key_error, api_raised |-> re.api_raised]]

(***************************************************************************)
(* Executor.execute                                                        *)
(***************************************************************************)
LKGView(cache, rows) ==
    [i \in signalized_intersections |-> LKGValue(cache, rows, i)]

\* The whole of Executor.execute as a function of the state it reads and of
\* the outcomes of the calls it makes.  status is "returned" or "raised".
ExecutorExecute(cycle, adaptations, outcomes, order, rbapi, g, cache, rows, w, baseline, roads) ==
    LET untouched ==
            [status |-> "returned", nodes |-> g, cache |-> cache, rows |-> rows,
             window |-> w, baseline |-> baseline,
             result |-> [cycle |-> cycle, applied |-> <<>>, rolled_back |-> FALSE,
                         has_metrics |-> FALSE],
             trace |-> [NoTrace EXCEPT !.ran = TRUE]]
    IN
    IF adaptations = <<>> THEN untouched
    ELSE IF ~ValidateAdaptations(adaptations) THEN untouched
    ELSE
      LET ap  == ApplyAdaptations(adaptations, cycle, outcomes, g, rows)
          m   == MetricsCalculate(roads)
          chk == check_for_degradation(w, baseline, CalculateUtility(m))
          tr  == [NoTrace EXCEPT !.ran = TRUE, !.validated = TRUE,
                                 !.calls = ap.calls, !.outcomes = outcomes,
                                 !.check = chk.result,
                                 !.lkg_before = LKGView(cache, ap.rows),
                                 !.nodes_before = ap.nodes]
      IN
      IF chk.result = "ZeroDivisionError"
      THEN [status |-> "raised", nodes |-> ap.nodes, cache |-> cache,
            rows |-> ap.rows, window |-> chk.window, baseline |-> chk.baseline,
            result |-> NoResult, trace |-> tr]
      ELSE IF chk.result = "true" /\ enable_rollback
      THEN LET rb == ExecuteRollback(order, rbapi, ap.nodes, cache, ap.rows) IN
           [status |-> "returned", nodes |-> rb.nodes, cache |-> rb.cache,
            rows |-> ap.rows, window |-> chk.window, baseline |-> chk.baseline,
            result |-> [cycle |-> cycle, applied |-> ap.applied,
                        rolled_back |-> TRUE, has_metrics |-> TRUE],
            trace |-> [tr EXCEPT !.calls = @ \cup rb.calls, !.rollback = rb.info]]
      ELSE [status |-> "returned", nodes |-> ap.nodes,
            cache |-> update_last_known_good(cache, cycle, adaptations),
            rows |-> ap.rows, window |-> chk.window, baseline |-> chk.baseline,
            result |-> [cycle |-> cycle, applied |-> ap.applied,
                        rolled_back |-> FALSE, has_metrics |-> TRUE],
            trace |-> tr]

\* EXECUTE stage of MAPELoopController._execute_mape_cycle; an exception
\* leaving Executor.execute leaves run() as well.  The outcomes of calls
\* that are not made are not drawn.
Execute ==
    /\ pc = "execute"
    /\ LET inGraph == signalized_intersections \cap DOMAIN nodes
           applies == plan.adaptations # <<>> /\ ValidateAdaptations(plan.adaptations)
           degraded == check_for_degradation(performance_window, baseline_utility,
                          CalculateUtility(MetricsCalculate(edges))).result = "true"
       IN
       \E outcomes \in IF applies THEN [1..Len(plan.adaptations) -> ApplyOutcomes]
                                  ELSE { <<>> } :
       \E order \in IF applies /\ degraded THEN Permutations_(inGraph) ELSE { <<>> } :
       \E rbapi \in IF applies /\ degraded THEN [1..Cardinality(inGraph) -> ApiOutcomes]
                                           ELSE { <<>> } :
          LET out == ExecutorExecute(current_cycle, plan.adaptations, outcomes,
                                     order, rbapi, nodes, lkg_cache,
                                     signal_configurations, performance_window,
                                     baseline_utility, edges)
          IN /\ nodes' = out.nodes
             /\ lkg_cache' = out.cache
             /\ signal_configurations' = out.rows
             /\ performance_window' = out.window
             /\ baseline_utility' = out.baseline
             /\ execution_result' = out.result
             /\ exec_trace' = out.trace
             /\ pc' = IF out.status = "raised" THEN "crashed" ELSE "executed"
    /\ stages' = Append(stages, "EXECUTE")
    /\ UNCHANGED <<mape_loop, graph_state, kb_call, cost_history, runtime_graph, stop_signal, client, bandit_state, failed_collections, current_cycle, edges, monitor_data, analysis_result, plan,
                   metrics, reward_log>>

(***************************************************************************)
(* METRICS, REWARD_UPDATE and SLEEP                                        *)
(***************************************************************************)
CalculateMetrics ==
    /\ pc = "executed"
    /\ metrics' = Some(MetricsCalculate(edges))
    /\ pc' = "reward_update"
    /\ stages' = Append(stages, "METRICS")
    /\ UNCHANGED <<mape_loop, graph_state, kb_call, cost_history, runtime_graph, stop_signal, client, bandit_state, failed_collections, current_cycle, nodes, edges, monitor_data, analysis_result,
                   plan, lkg_cache, signal_configurations, performance_window,
                   baseline_utility, execution_result, exec_trace, reward_log>>

\* insert_performance_metrics raises inside MetricsCalculator.calculate: no
\* metrics are returned, run() re-raises
MetricsWriteRaises ==
    /\ pc = "executed"
    /\ pc' = "crashed"
    /\ stages' = Append(stages, "METRICS")
    /\ UNCHANGED <<mape_loop, graph_state, kb_call, cost_history, runtime_graph, stop_signal, client, bandit_state, failed_collections, current_cycle, nodes, edges, monitor_data,
                   analysis_result, plan, lkg_cache, signal_configurations,
                   performance_window, baseline_utility, execution_result,
                   exec_trace, metrics, reward_log>>

\* reward of MAPELoopController._update_bandit_rewards, times CostScale
Reward(m) == 0 - m.network_cost - CostScale * 10 * m.total_spillbacks

(***************************************************************************)
(* ContextualBandit and the bandit_state table                             *)
(***************************************************************************)
Arm(i, pid) == <<i, pid>>

\* ContextualBandit._get_arm_stats for an arm without a row
NewArmStats == [times_selected |-> 0, total_reward |-> 0, avg_reward |-> 0]

\* KnowledgeBase.get_bandit_stats followed by the default of
\* ContextualBandit._get_arm_stats
get_arm_stats(tbl, arm) ==
    IF arm \in DOMAIN tbl THEN tbl[arm] ELSE NewArmStats

\* a write that removes the row of an arm that has one
ToggleArmStats(tbl, arm, row) ==
    IF arm \in DOMAIN tbl THEN [a \in (DOMAIN tbl) \ {arm} |-> tbl[a]]
    ELSE [a \in (DOMAIN tbl) \cup {arm} |-> IF a = arm THEN row ELSE tbl[a]]

\* KnowledgeBase.update_bandit_stats.  The INSERT OR REPLACE leaves
\* context_hash NULL, and NULLs never collide in
\* UNIQUE(intersection_id, plan_id, context_hash): the statement always
\* inserts.  get_bandit_stats reads the first row of the arm, so a row
\* inserted behind another row of its arm is never read and is not kept.
update_bandit_stats(tbl, arm, row) ==
    IF arm \in DOMAIN tbl THEN tbl
    ELSE [a \in (DOMAIN tbl) \cup {arm} |-> IF a = arm THEN row ELSE tbl[a]]

\* an update that stores the reward as the average
RewardAsAverage(tbl, arm, reward) ==
    LET stats == get_arm_stats(tbl, arm) IN
    update_bandit_stats(tbl, arm,
        [times_selected |-> stats.times_selected + 1,
         total_reward |-> stats.total_reward + reward,
         avg_reward |-> reward + 1])

\* ContextualBandit.update_reward
update_reward(tbl, arm, reward) ==
    LET stats == get_arm_stats(tbl, arm)
        new_times_selected == stats.times_selected + 1
        new_total_reward == stats.total_reward + reward
    IN update_bandit_stats(tbl, arm,
          [times_selected |-> new_times_selected,
           total_reward |-> new_total_reward,
           avg_reward |-> new_total_reward \div new_times_selected])

\* the update_reward calls of the loop of _update_bandit_rewards
RECURSIVE RewardFrom(_, _, _, _)
RewardFrom(k, tbl, adaptations, reward) ==
    IF k > Len(adaptations) THEN tbl
    ELSE RewardFrom(k + 1,
            update_reward(tbl, Arm(adaptations[k].intersection_id,
                                   adaptations[k].plan_id), reward),
            adaptations, reward)

\* MAPELoopController._update_bandit_rewards: one bandit.update_reward per
\* adaptation of this cycle's plan
UpdateBanditRewards ==
    /\ pc = "reward_update"
    /\ reward_log' =
          [k \in 1..Len(plan.adaptations) |->
            [intersection_id |-> plan.adaptations[k].intersection_id,
             plan_id |-> plan.adaptations[k].plan_id,
             pulled_cycle |-> plan.cycle,
             delivered_cycle |-> current_cycle,
             reward |-> Reward(metrics[1])]]
    /\ bandit_state' = RewardFrom(1, bandit_state, plan.adaptations, Reward(metrics[1]))
    /\ pc' = "sleep"
    /\ stages' = Append(stages, "REWARD_UPDATE")
    /\ UNCHANGED <<mape_loop, graph_state, kb_call, cost_history, runtime_graph, stop_signal, client, failed_collections, current_cycle, nodes, edges, monitor_data, analysis_result,
                   plan, lkg_cache, signal_configurations, performance_window,
                   baseline_utility, execution_result, exec_trace, metrics>>

\* end of the iteration: the sleep, after which the locals of the cycle
\* are gone
Sleep ==
    /\ pc = "sleep"
    /\ pc' = "loop"
    /\ stages' = Append(stages, "SLEEP")
    /\ monitor_data' = NoMonitorData
    /\ analysis_result' = NoAnalysis
    /\ plan' = NoPlan
    /\ metrics' = None
    /\ execution_result' = NoResult
    /\ exec_trace' = NoTrace
    /\ reward_log' = <<>>
    /\ UNCHANGED <<mape_loop, graph_state, kb_call, cost_history, runtime_graph, stop_signal, client, bandit_state, failed_collections, current_cycle, nodes, edges, lkg_cache, signal_configurations,
                   performance_window, baseline_utility>>

Next ==
    \/ StartCycle
    \/ LoopExit
    \/ MonitorOk
    \/ MonitorFail
    \/ MonitorError
    \/ Analyze
    \/ AnalyzeWriteRaises
    \/ PlannerExecute
    \/ PlanWriteRaises
    \/ Execute
    \/ CalculateMetrics
    \/ MetricsWriteRaises
    \/ UpdateBanditRewards
    \/ Sleep

Spec == Init /\ [][Next]_vars

(***************************************************************************)
(* The Executor driven by a caller of its own (the test suites): the graph *)
(* is refreshed, a hand-built list of adaptations is executed, the result  *)
(* is taken.                                                               *)
(***************************************************************************)
InitExec == pc = "caller" /\ Constructed

CallerStart ==
    /\ pc = "caller"
    /\ current_cycle < MaxCycle
    /\ current_cycle' = current_cycle + 1
    /\ pc' = "monitor"
    /\ stages' = <<>>
    /\ UNCHANGED <<mape_loop, graph_state, kb_call, cost_history, runtime_graph, stop_signal, client, bandit_state, failed_collections, nodes, edges, monitor_data, analysis_result, plan, lkg_cache,
                   signal_configurations, performance_window, baseline_utility,
                   execution_result, exec_trace, metrics, reward_log>>

\* the caller brings the edge costs of its graph up to date with
\* graph_utils.compute_edge_costs before it hands over the adaptations
CallerComputeCosts ==
    /\ pc = "analyze"
    /\ edges' = compute_edge_costs(edges)
    /\ pc' = "plan"
    /\ stages' = Append(stages, "ANALYZE")
    /\ UNCHANGED <<mape_loop, graph_state, kb_call, cost_history, runtime_graph, stop_signal, client, bandit_state, failed_collections, current_cycle, nodes, monitor_data,
                   analysis_result, plan, lkg_cache, signal_configurations,
                   performance_window, baseline_utility, execution_result,
                   exec_trace, metrics, reward_log>>

CallerReturn ==
    /\ pc = "executed"
    /\ pc' = "caller"
    /\ monitor_data' = NoMonitorData
    /\ analysis_result' = NoAnalysis
    /\ plan' = NoPlan
    /\ execution_result' = NoResult
    /\ exec_trace' = NoTrace
    /\ UNCHANGED <<mape_loop, graph_state, kb_call, cost_history, runtime_graph, stop_signal, client, bandit_state, failed_collections, current_cycle, nodes, edges, lkg_cache, signal_configurations,
                   performance_window, baseline_utility, metrics, reward_log,
                   stages>>

NextExec ==
    \/ CallerStart
    \/ MonitorOk
    \/ CallerComputeCosts
    \/ CallerPlan
    \/ Execute
    \/ CallerReturn

SpecExec == InitExec /\ [][NextExec]_vars

(***************************************************************************)
(* The Executor handed adaptations whose plan the phase library does not   *)
(* hold: an unknown plan name for A, and a plan for C, for which the       *)
(* library holds none.                                                     *)
(***************************************************************************)
OffLibraryBatches ==
    LET a_ns      == Adaptation("A", PlanId("A", "2phase_ns_priority"), 0, 0)
        a_unknown == Adaptation("A", PlanId("A", "4phase_protected"), 1, 0)
        c_ns      == Adaptation("C", PlanId("C", "2phase_ns_priority"), 0, 0)
    IN { <<a_ns>>, <<a_unknown>>, <<a_ns, c_ns>> }

\* PhaseLibrary.get_plans holds the plan for the intersection
InLibrary(a) == \E p \in get_plans(a.intersection_id) : p.plan_id = a.plan_id

CallerPlanOffLibrary ==
    /\ pc = "plan"
    /\ \E b \in OffLibraryBatches :
          plan' = [source |-> "caller", cycle |-> current_cycle, adaptations |-> b]
    /\ pc' = "execute"
    /\ stages' = Append(stages, "PLAN")
    /\ UNCHANGED <<mape_loop, graph_state, kb_call, cost_history, runtime_graph, stop_signal, client, bandit_state, failed_collections, current_cycle, nodes, edges, monitor_data, analysis_result,
                   lkg_cache, signal_configurations, performance_window,
                   baseline_utility, execution_result, exec_trace, metrics,
                   reward_log>>

NextOffLibrary ==
    \/ CallerStart
    \/ MonitorOk
    \/ CallerComputeCosts
    \/ CallerPlanOffLibrary
    \/ Execute
    \/ CallerReturn

SpecOffLibrary == InitExec /\ [][NextOffLibrary]_vars

(***************************************************************************)
(* Executor._apply_adaptations writing through the KnowledgeBase of the    *)
(* repository: store_signal_config and db_utils.insert_signal_config as    *)
(* they are written, rows kept with their config_id.  The caller hands     *)
(* over the same plans cycle after cycle.                                  *)
(***************************************************************************)
\* parameters of db_utils.insert_signal_config
InsertSignalConfigParams ==
    {"conn", "intersection_id", "cycle", "timestamp", "plan_id", "green_splits",
     "cycle_length", "offset", "is_incident_mode"}

\* those without a default value
InsertSignalConfigRequired == InsertSignalConfigParams \ {"is_incident_mode"}

\* the arguments of the call KnowledgeBase.store_signal_config makes
StoreSignalConfigArgs ==
    {"conn", "intersection_id", "cycle", "timestamp", "plan_id", "phase_id",
     "cycle_length", "offset", "is_incident_mode"}

\* Python binds a call when every argument names a parameter and every
\* parameter without a default is given; otherwise the call raises TypeError
CallBinds(args, params, required) ==
    /\ args \subseteq params
    /\ required \subseteq args

\* the row INSERT INTO signal_configurations adds: config_id is the
\* AUTOINCREMENT key, applied is 1
StoredRow(rows, a, cycle) ==
    [config_id |-> Cardinality(rows) + 1,
     intersection_id |-> a.intersection_id, cycle_number |-> cycle,
     plan_id |-> a.plan_id, cycle_length |-> a.cycle_length,
     offset |-> a.offset, applied |-> 1]

\* KnowledgeBase.store_signal_config: the table after the call and whether
\* the call returned or raised
store_signal_config(rows, a, cycle) ==
    IF CallBinds(StoreSignalConfigArgs, InsertSignalConfigParams, InsertSignalConfigRequired)
    THEN [status |-> "ok", rows |-> rows \cup {StoredRow(rows, a, cycle)}]
    ELSE [status |-> "raise", rows |-> rows]

\* one iteration of the loop of Executor._apply_adaptations; api is the
\* outcome of the simulator call
ApplyAndStoreOne(st, a, cycle, api) ==
    LET called == [st EXCEPT !.calls = @ \cup {SimCall(a, "apply")}] IN
    IF api # "ok"
    THEN [called EXCEPT !.outcomes = Append(@, [api |-> api, store |-> "none"])]
    ELSE LET w == store_signal_config(st.rows, a, cycle) IN
         IF w.status # "ok"
         THEN [called EXCEPT !.nodes = SetNodePlan(@, a),
                             !.outcomes = Append(@, [api |-> api, store |-> "raise"])]
         ELSE [called EXCEPT !.nodes = SetNodePlan(@, a),
                             !.rows = w.rows,
                             !.applied = Append(@, a),
                             !.outcomes = Append(@, [api |-> api, store |-> "ok"])]

\* Executor._apply_adaptations
RECURSIVE ApplyAndStoreFrom(_, _, _, _, _)
ApplyAndStoreFrom(k, st, adaptations, cycle, apis) ==
    IF k > Len(adaptations) THEN st
    ELSE ApplyAndStoreFrom(k + 1, ApplyAndStoreOne(st, adaptations[k], cycle, apis[k]),
                           adaptations, cycle, apis)

\* the plans the caller applies: the same plan for A each cycle, alone or
\* followed by one for B
StoreBatches ==
    LET a_ns == Adaptation("A", PlanId("A", "2phase_ns_priority"), 0, 0)
        b_ns == Adaptation("B", PlanId("B", "2phase_ns_priority"), 0, 30)
    IN { <<a_ns>>, <<a_ns, b_ns>> }

CallerPlanStore ==
    /\ pc = "plan"
    /\ \E b \in StoreBatches :
          plan' = [source |-> "caller", cycle |-> current_cycle, adaptations |-> b]
    /\ pc' = "execute"
    /\ stages' = Append(stages, "PLAN")
    /\ UNCHANGED <<mape_loop, graph_state, kb_call, cost_history, runtime_graph, stop_signal, client, bandit_state, failed_collections, current_cycle, nodes, edges, monitor_data, analysis_result,
                   lkg_cache, signal_configurations, performance_window,
                   baseline_utility, execution_result, exec_trace, metrics,
                   reward_log>>

\* the caller applies the validated batch with Executor._apply_adaptations
ApplyAndStore ==
    /\ pc = "execute"
    /\ \E apis \in [1..Len(plan.adaptations) -> ApiOutcomes] :
          LET ap == ApplyAndStoreFrom(1, [nodes |-> nodes, rows |-> signal_configurations,
                                          applied |-> <<>>, calls |-> {}, outcomes |-> <<>>],
                                      plan.adaptations, current_cycle, apis)
          IN /\ nodes' = ap.nodes
             /\ signal_configurations' = ap.rows
             /\ execution_result' = [cycle |-> current_cycle, applied |-> ap.applied,
                                     rolled_back |-> FALSE, has_metrics |-> FALSE]
             /\ exec_trace' = [NoTrace EXCEPT !.ran = TRUE, !.validated = TRUE,
                                              !.calls = ap.calls,
                                              !.outcomes = ap.outcomes]
    /\ pc' = "executed"
    /\ stages' = Append(stages, "EXECUTE")
    /\ UNCHANGED <<mape_loop, graph_state, kb_call, cost_history, runtime_graph, stop_signal, client, bandit_state, failed_collections, current_cycle, edges, monitor_data, analysis_result, plan,
                   lkg_cache, performance_window, baseline_utility, metrics,
                   reward_log>>

NextStore ==
    \/ CallerStart
    \/ MonitorOk
    \/ CallerComputeCosts
    \/ CallerPlanStore
    \/ ApplyAndStore
    \/ CallerReturn

SpecStore == InitExec /\ [][NextStore]_vars

(***************************************************************************)
(* The RollbackManager on its own: check_for_degradation called with the   *)
(* metrics of successive cycles.                                           *)
(***************************************************************************)
\* metrics whose utilities are 0, -90, -100, -140 and -180
ObservedMetrics ==
    { [avg_delay |-> 0, avg_queue |-> 0, network_cost |-> CostScale * c,
       total_spillbacks |-> 0, total_edges |-> 1] : c \in {0, 90, 100, 140, 180} }

InitRM == pc = "rollback_manager" /\ Constructed

CheckForDegradation ==
    /\ pc = "rollback_manager"
    /\ \E m \in ObservedMetrics :
          LET chk == check_for_degradation(performance_window, baseline_utility,
                                           CalculateUtility(m))
          IN /\ performance_window' = chk.window
             /\ baseline_utility' = chk.baseline
             /\ exec_trace' = [NoTrace EXCEPT !.check = chk.result]
             /\ metrics' = Some(m)
             /\ pc' = IF chk.result = "ZeroDivisionError" THEN "crashed" ELSE pc
    /\ UNCHANGED <<mape_loop, graph_state, kb_call, cost_history, runtime_graph, stop_signal, client, bandit_state, failed_collections, current_cycle, nodes, edges, monitor_data, analysis_result,
                   plan, lkg_cache, signal_configurations, execution_result,
                   reward_log, stages>>

NextRM == CheckForDegradation

SpecRM == InitRM /\ [][NextRM]_vars

(***************************************************************************)
(* The loop with stop(), the duration and KeyboardInterrupt arriving while *)
(* a cycle is running                                                      *)
(***************************************************************************)
LoopPcs == {"loop", "monitor", "analyze", "plan", "execute", "executed",
            "reward_update", "sleep"}

AllButPcAndSignal ==
    <<current_cycle, nodes, edges, monitor_data, failed_collections, client,
      runtime_graph, cost_history, graph_state, kb_call, mape_loop, analysis_result, plan, lkg_cache, signal_configurations, performance_window,
      baseline_utility, execution_result, exec_trace, metrics, reward_log,
      bandit_state, stages>>

\* MAPELoopController.stop is called, or the clock passes the duration
StopRequested ==
    /\ pc \in LoopPcs
    /\ stop_signal = "none"
    /\ stop_signal' \in {"stop", "duration"}
    /\ UNCHANGED pc
    /\ UNCHANGED AllButPcAndSignal

\* KeyboardInterrupt between two stages: the handler of run() clears
\* self.running and run() returns
Interrupt ==
    /\ pc \in LoopPcs
    /\ stop_signal' = "interrupt"
    /\ pc' = "exited"
    /\ UNCHANGED AllButPcAndSignal

\* the loop head within the iterations explored with signals
StartCycleStop == StartCycle /\ current_cycle < MaxStopCycle

\* the steps of run() itself
RunStep ==
    \/ StartCycleStop
    \/ LoopExit
    \/ MonitorOk
    \/ MonitorFail
    \/ MonitorError
    \/ Analyze
    \/ AnalyzeWriteRaises
    \/ PlannerExecute
    \/ PlanWriteRaises
    \/ Execute
    \/ CalculateMetrics
    \/ MetricsWriteRaises
    \/ UpdateBanditRewards
    \/ Sleep

NextStop == RunStep \/ StopRequested \/ Interrupt

\* run() keeps taking its steps (every stage returns or raises, the sleep
\* ends); the signals are under no obligation to arrive
SpecStop == Init /\ [][NextStop]_vars /\ WF_vars(RunStep)

(***************************************************************************)
(* The ContextualBandit on its own: update_reward called for the arms of   *)
(* the library with rewards of either sign.                                *)
(***************************************************************************)
BanditArms ==
    { Arm(i, PlanId(i, n)) : i \in LibraryIntersections, n \in PlanNames }

BanditRewards == {0 - 40, 0 - 10, 0, 8}

InitBandit == pc = "bandit" /\ Constructed

BanditUpdateReward ==
    /\ pc = "bandit"
    /\ \E arm \in BanditArms, r \in BanditRewards :
          /\ bandit_state' = update_reward(bandit_state, arm, r)
          /\ reward_log' = << [intersection_id |-> arm[1], plan_id |-> arm[2],
                                reward |-> r,
                                stats_before |-> get_arm_stats(bandit_state, arm)] >>
    /\ UNCHANGED <<mape_loop, graph_state, kb_call, cost_history, pc, runtime_graph, stop_signal, client, failed_collections, current_cycle, nodes, edges, monitor_data, analysis_result,
                   plan, lkg_cache, signal_configurations, performance_window,
                   baseline_utility, execution_result, exec_trace, metrics, stages>>

NextBandit == BanditUpdateReward

SpecBandit == InitBandit /\ [][NextBandit]_vars

(***************************************************************************)
(* SimulatorClient.get and SimulatorClient.post, and what their callers    *)
(* make of the result                                                      *)
(***************************************************************************)
retry_attempts == 3

\* the requests of the controller: the snapshot GET of the Monitor and the
\* signal POST of the Executor (apply and rollback)
Endpoints ==
    { [method |-> "get", endpoint |-> "endpoint_get_network", intersection_id |-> "none"] } \cup
    { [method |-> "post", endpoint |-> "endpoint_set_signal", intersection_id |-> i] :
        i \in signalized_intersections }

\* outcome of one attempt: a response (whose body reports success or not),
\* a requests.exceptions.RequestException, or an exception of another class
AttemptOutcomes == {"success", "refused", "RequestException", "OtherException"}

\* a retry that sleeps after every failed attempt
RetryAfterEveryFailure(attempt) == TRUE

\* the test before time.sleep(retry_delay_seconds)
ShouldRetry(attempt) == attempt < retry_attempts - 1

\* what the loop sees of a finished request: SimulatorAPI.get_network_snapshot
\* under Monitor._collect_network_snapshot, SimulatorAPI.set_signal_timing
\* under Executor._apply_adaptations
CallerSees(method, status, result) ==
    IF method = "get"
    THEN (IF status = "returned" /\ result \in {"success", "refused"}
          THEN "snapshot" ELSE "no snapshot")
    ELSE (IF status = "returned" /\ result = "success"
          THEN "applied" ELSE "apply failed")

InitClient == pc = "client" /\ Constructed

\* a caller starts a request
ClientRequest ==
    /\ pc = "client"
    /\ client.status # "running"
    /\ client.requests < MaxRequests
    /\ \E e \in Endpoints :
          client' = [status |-> "running", endpoint |-> e, attempt |-> 0, log |-> <<>>,
                     result |-> "none", seen |-> "none",
                     requests |-> client.requests + 1]
    /\ UNCHANGED <<mape_loop, graph_state, kb_call, cost_history, pc, runtime_graph, stop_signal, bandit_state, failed_collections, current_cycle, nodes, edges,
                   monitor_data, analysis_result, plan, lkg_cache,
                   signal_configurations, performance_window, baseline_utility,
                   execution_result, exec_trace, metrics, reward_log, stages>>

\* one iteration of "for attempt in range(retry_attempts)"
ClientAttempt ==
    /\ pc = "client"
    /\ client.status = "running"
    /\ client.attempt < retry_attempts
    /\ \E o \in AttemptOutcomes :
          LET tried == Append(client.log, "attempt")
              m == client.endpoint.method
          IN client' =
               IF o \in {"success", "refused"}
               THEN [client EXCEPT !.status = "returned", !.log = tried, !.result = o,
                                   !.seen = CallerSees(m, "returned", o)]
               ELSE IF o = "OtherException"
               THEN [client EXCEPT !.status = "raised", !.log = tried,
                                   !.seen = CallerSees(m, "raised", "none")]
               ELSE IF ShouldRetry(client.attempt)
               THEN IF client.attempt + 1 < retry_attempts
                    THEN [client EXCEPT !.attempt = @ + 1, !.log = Append(tried, "sleep")]
                    ELSE [client EXCEPT !.status = "returned", !.attempt = @ + 1,
                                        !.log = Append(tried, "sleep"), !.result = "None",
                                        !.seen = CallerSees(m, "returned", "None")]
               ELSE [client EXCEPT !.status = "returned", !.log = tried, !.result = "None",
                                   !.seen = CallerSees(m, "returned", "None")]
    /\ UNCHANGED <<mape_loop, graph_state, kb_call, cost_history, pc, runtime_graph, stop_signal, bandit_state, failed_collections, current_cycle, nodes, edges,
                   monitor_data, analysis_result, plan, lkg_cache,
                   signal_configurations, performance_window, baseline_utility,
                   execution_result, exec_trace, metrics, reward_log, stages>>

NextClient == ClientRequest \/ ClientAttempt

SpecClient == InitClient /\ [][NextClient]_vars

(***************************************************************************)
(* app: RuntimeGraph, its Lock, and the callers that write to the graph.   *)
(* The callers run on one event loop, one call at a time.                  *)
(***************************************************************************)
\* the functions that take RuntimeGraph._lock
LockedFns == {"update_edge_metrics", "to_visualization_snapshot"}

\* node attributes after DiGraph.add_node(id) without attributes
BareNode == [current_plan_id |-> None]

\* RuntimeGraph._add_edge_locked followed by the metrics update of
\* RuntimeGraph.update_edge_metrics
EdgeWithMetrics(g, k, road) ==
    [kk \in (DOMAIN g) \cup {k} |->
        IF kk = k
        THEN [queue |-> road.current_queue, delay |-> road.current_delay,
              spillback |-> road.spillback_active, incident |-> road.incident_active,
              cost |-> IF k \in DOMAIN g THEN g[k].cost ELSE 0]
        ELSE g[kk]]

AddBareNodes(g, ids) ==
    [i \in (DOMAIN g) \cup ids |-> IF i \in DOMAIN g THEN g[i] ELSE BareNode]

\* app Analyzer.compute_edge_costs with EdgeCostConfig (1.0, 1.0, 10.0, 20.0)
AppEdgeCost(e) ==
    e.delay + e.queue + (IF e.spillback THEN 10 ELSE 0) + (IF e.incident THEN 20 ELSE 0)

InitLock == pc = "app" /\ Constructed

LockUnchanged ==
    UNCHANGED <<mape_loop, graph_state, kb_call, cost_history, pc, stop_signal, client, bandit_state, failed_collections, current_cycle,
                nodes, edges, monitor_data, analysis_result, plan, lkg_cache,
                signal_configurations, performance_window, baseline_utility,
                execution_result, exec_trace, metrics, reward_log, stages>>

\* a caller enters one of the functions that touch the graph
RGCall ==
    /\ pc = "app"
    /\ runtime_graph.task = NoTask
    /\ \E t \in { [fn |-> "update_edge_metrics", step |-> "acquire", arg |-> <<k, r>>] :
                     k \in EdgeKeys, r \in RoadStates } \cup
                 { [fn |-> "to_visualization_snapshot", step |-> "acquire", arg |-> <<>>] } \cup
                 { [fn |-> "compute_edge_costs", step |-> "write", arg |-> <<>>] } \cup
                 { [fn |-> "apply_actions", step |-> "add_node", arg |-> <<i, PlanId(i, n)>>] :
                     i \in LibraryIntersections, n \in PlanNames } :
          runtime_graph' = [runtime_graph EXCEPT !.task = t]
    /\ LockUnchanged

\* "with self._lock:" is entered
RGAcquire ==
    /\ pc = "app"
    /\ runtime_graph.task.step = "acquire"
    /\ runtime_graph.lock = "free"
    /\ runtime_graph' = [runtime_graph EXCEPT !.lock = runtime_graph.task.fn,
                                              !.task.step = "body"]
    /\ LockUnchanged

\* body of RuntimeGraph.update_edge_metrics
RGUpdateEdgeMetrics ==
    /\ pc = "app"
    /\ runtime_graph.task.fn = "update_edge_metrics"
    /\ runtime_graph.task.step = "body"
    /\ LET k == runtime_graph.task.arg[1]
           r == runtime_graph.task.arg[2]
       IN runtime_graph' =
            [runtime_graph EXCEPT
               !.nodes = IF k \in DOMAIN runtime_graph.edges THEN @
                         ELSE AddBareNodes(@, {k[1], k[2]}),
               !.edges = EdgeWithMetrics(@, k, r),
               !.task.step = "release"]
    /\ LockUnchanged

\* body of RuntimeGraph.to_visualization_snapshot: the graph is only read
RGSnapshot ==
    /\ pc = "app"
    /\ runtime_graph.task.fn = "to_visualization_snapshot"
    /\ runtime_graph.task.step = "body"
    /\ runtime_graph' = [runtime_graph EXCEPT !.task.step = "release"]
    /\ LockUnchanged

\* the with block is left
RGRelease ==
    /\ pc = "app"
    /\ runtime_graph.task.step = "release"
    /\ runtime_graph' = [runtime_graph EXCEPT !.lock = "free", !.task = NoTask]
    /\ LockUnchanged

\* app Analyzer.compute_edge_costs: data["cost"] = cost on every edge
RGComputeEdgeCosts ==
    /\ pc = "app"
    /\ runtime_graph.task.fn = "compute_edge_costs"
    /\ LET g == runtime_graph.edges IN
       runtime_graph' =
         [runtime_graph EXCEPT
            !.edges = [k \in DOMAIN g |-> [g[k] EXCEPT !.cost = AppEdgeCost(g[k])]],
            !.task = NoTask]
    /\ LockUnchanged

\* app Executor.apply_actions, first write: graph.add_node when the
\* intersection is not a node yet
RGApplyAddNode ==
    /\ pc = "app"
    /\ runtime_graph.task.fn = "apply_actions"
    /\ runtime_graph.task.step = "add_node"
    /\ runtime_graph' =
         [runtime_graph EXCEPT !.nodes = AddBareNodes(@, {runtime_graph.task.arg[1]}),
                               !.task.step = "set_plan"]
    /\ LockUnchanged

\* app Executor.apply_actions, second write: current_plan_id of the node
RGApplySetPlan ==
    /\ pc = "app"
    /\ runtime_graph.task.fn = "apply_actions"
    /\ runtime_graph.task.step = "set_plan"
    /\ runtime_graph' =
         [runtime_graph EXCEPT
            !.nodes[runtime_graph.task.arg[1]].current_plan_id = Some(runtime_graph.task.arg[2]),
            !.task = NoTask]
    /\ LockUnchanged

NextLock ==
    \/ RGCall
    \/ RGAcquire
    \/ RGUpdateEdgeMetrics
    \/ RGSnapshot
    \/ RGRelease
    \/ RGComputeEdgeCosts
    \/ RGApplyAddNode
    \/ RGApplySetPlan

SpecLock == InitLock /\ [][NextLock]_vars

(***************************************************************************)
(* Monitor, Analyzer and Planner on a road network with alternative        *)
(* routes: 1 -> A, A -> B, B -> C, A -> C, C -> B.  The roads A -> B and   *)
(* B -> C change between snapshots; A -> B is a short or a long road.      *)
(***************************************************************************)
NetEdgeKeys == { <<"1", "A">>, <<"A", "B">>, <<"B", "C">>, <<"A", "C">>, <<"C", "B">> }

IdleRoad ==
    [current_queue |-> 0, current_delay |-> 0, spillback_active |-> FALSE,
     incident_active |-> FALSE, free_flow_time |-> 30]

NetRoadStates ==
    RoadStates \cup
    { [IdleRoad EXCEPT !.current_queue = 4],
      [IdleRoad EXCEPT !.free_flow_time = 310] }

NetSnapshots ==
    { [k \in NetEdgeKeys |->
         IF k = <<"A", "B">> THEN ab ELSE IF k = <<"B", "C">> THEN bc ELSE IdleRoad] :
      ab \in NetRoadStates, bc \in RoadStates }

InitNet == pc = "net" /\ Constructed

\* Monitor.execute on a snapshot of the network
NetMonitor ==
    /\ pc = "net"
    /\ current_cycle < MaxNetCycle
    /\ current_cycle' = current_cycle + 1
    /\ \E snap \in NetSnapshots :
          /\ nodes' = EnsureNodes(nodes, { k[1] : k \in DOMAIN snap } \cup
                                          { k[2] : k \in DOMAIN snap })
          /\ edges' = UpdateGraphEdges(edges, snap)
          /\ monitor_data' = [snapshot |-> Some(snap), incidents |-> DetectIncidents(snap)]
    /\ pc' = "analyze"
    /\ stages' = <<"MONITOR">>
    /\ UNCHANGED <<mape_loop, graph_state, kb_call, cost_history, runtime_graph, stop_signal, client, bandit_state, failed_collections, analysis_result, plan, lkg_cache,
                   signal_configurations, performance_window, baseline_utility,
                   execution_result, exec_trace, metrics, reward_log>>

\* the plan is taken; the analysis of the cycle stays with the caller
NetReturn ==
    /\ pc = "execute"
    /\ pc' = "net"
    /\ monitor_data' = NoMonitorData
    /\ plan' = NoPlan
    /\ UNCHANGED <<mape_loop, graph_state, kb_call, cost_history, runtime_graph, stop_signal, client, bandit_state, failed_collections, current_cycle, nodes, edges,
                   analysis_result, lkg_cache, signal_configurations,
                   performance_window, baseline_utility, execution_result,
                   exec_trace, metrics, reward_log, stages>>

NextNet ==
    \/ NetMonitor
    \/ Analyze
    \/ PlannerExecute
    \/ NetReturn

SpecNet == InitNet /\ [][NextNet]_vars

(***************************************************************************)
(* Plan selection by the bandit over the cycles of the loop: in every      *)
(* cycle Planner.execute selects a plan for some library intersections,    *)
(* with the bandit or, in incident mode, with the incident handler, and    *)
(* _update_bandit_rewards delivers the reward of the cycle for each.       *)
(***************************************************************************)
MaxPulls == 3

\* the plans of an intersection in the order PhaseLibrary.get_plans lists
\* them: the order load_default_plans inserted the rows
PlanOrder == <<"2phase_ns_priority", "2phase_ew_priority">>

valid_plans(i) ==
    [k \in 1..Len(PlanOrder) |->
       [plan_id |-> PlanId(i, PlanOrder[k]), phase_id |-> LibraryPhaseId(PlanOrder[k]),
        cycle_length |-> DefaultCycleLength]]

\* 1000 * exploration_factor * sqrt(log(total_pulls) / times_selected),
\* rounded, where get_bandit_stats gives total_pulls = times_selected
UcbConfidence(n) ==
    IF n <= 1 THEN 0
    ELSE IF n = 2 THEN 118
    ELSE IF n = 3 THEN 121
    ELSE IF n = 4 THEN 118
    ELSE IF n = 5 THEN 113
    ELSE 109

\* avg_reward + confidence, times 1000 * CostScale
Ucb(stats) == 1000 * stats.avg_reward + CostScale * UcbConfidence(stats.times_selected)

\* a selection that returns the first plan of the library
SelectFirstPlan(tbl, i, plans) == plans[1]

\* the loop of ContextualBandit._select_ucb from plan k on; best is None
\* while best_ucb is -inf
RECURSIVE SelectUcbFrom(_, _, _, _, _)
SelectUcbFrom(tbl, i, plans, k, best) ==
    IF k > Len(plans)
    THEN IF best # None THEN best[1].plan ELSE plans[1]
    ELSE LET stats == get_arm_stats(tbl, Arm(i, plans[k].plan_id)) IN
         IF stats.times_selected = 0 THEN plans[k]
         ELSE IF best = None \/ Ucb(stats) > best[1].ucb
              THEN SelectUcbFrom(tbl, i, plans, k + 1,
                                 Some([plan |-> plans[k], ucb |-> Ucb(stats)]))
              ELSE SelectUcbFrom(tbl, i, plans, k + 1, best)

\* ContextualBandit._select_ucb
select_ucb(tbl, i, plans) == SelectUcbFrom(tbl, i, plans, 1, None)

\* the intersections Planner.execute plans for in a cycle, in a fixed order
SelectOrders == { <<"A">>, <<"B">>, <<"A", "B">> }

\* rewards of _update_bandit_rewards, times CostScale
SelectRewards == {0 - 20, 0}

InitSelect == pc = "select" /\ Constructed

\* Planner.execute, normal mode: bandit.select_plan for every intersection
SelectWithBandit ==
    /\ pc = "select"
    /\ current_cycle < MaxPulls
    /\ current_cycle' = current_cycle + 1
    /\ \E order \in SelectOrders :
          plan' = [source |-> "bandit", cycle |-> current_cycle',
                   adaptations |->
                     [k \in 1..Len(order) |->
                        LET p == select_ucb(bandit_state, order[k], valid_plans(order[k]))
                        IN Adaptation(order[k], p.plan_id, p.phase_id, 0)]]
    /\ pc' = "select_reward"
    /\ UNCHANGED <<mape_loop, graph_state, kb_call, cost_history, runtime_graph, stop_signal, client, bandit_state, failed_collections, nodes, edges, monitor_data, analysis_result,
                   lkg_cache, signal_configurations, performance_window,
                   baseline_utility, execution_result, exec_trace, metrics,
                   reward_log, stages>>

\* Planner.execute, incident mode: IncidentHandler.select_incident_plan
\* returns the plan of the bypass direction or the first plan, whatever
\* the statistics of the arms are
SelectWithIncidentHandler ==
    /\ pc = "select"
    /\ current_cycle < MaxPulls
    /\ current_cycle' = current_cycle + 1
    /\ \E order \in SelectOrders :
       \E choice \in [1..Len(order) -> 1..Len(PlanOrder)] :
          plan' = [source |-> "incident_handler", cycle |-> current_cycle',
                   adaptations |->
                     [k \in 1..Len(order) |->
                        LET p == valid_plans(order[k])[choice[k]]
                        IN Adaptation(order[k], p.plan_id, p.phase_id, 0)]]
    /\ pc' = "select_reward"
    /\ UNCHANGED <<mape_loop, graph_state, kb_call, cost_history, runtime_graph, stop_signal, client, bandit_state, failed_collections, nodes, edges, monitor_data, analysis_result,
                   lkg_cache, signal_configurations, performance_window,
                   baseline_utility, execution_result, exec_trace, metrics,
                   reward_log, stages>>

\* _update_bandit_rewards for the plan of the cycle; reward_log keeps the
\* arms rewarded so far
SelectReward ==
    /\ pc = "select_reward"
    /\ \E r \in SelectRewards :
          /\ bandit_state' = RewardFrom(1, bandit_state, plan.adaptations, r)
          /\ reward_log' = reward_log \o
                [k \in 1..Len(plan.adaptations) |->
                   [intersection_id |-> plan.adaptations[k].intersection_id,
                    plan_id |-> plan.adaptations[k].plan_id,
                    source |-> plan.source,
                    reward |-> r]]
    /\ plan' = NoPlan
    /\ pc' = "select"
    /\ UNCHANGED <<mape_loop, graph_state, kb_call, cost_history, runtime_graph, stop_signal, client, failed_collections, current_cycle, nodes, edges, monitor_data, analysis_result,
                   lkg_cache, signal_configurations, performance_window,
                   baseline_utility, execution_result, exec_trace, metrics, stages>>

NextSelect ==
    \/ SelectWithBandit
    \/ SelectWithIncidentHandler
    \/ SelectReward

SpecSelect == InitSelect /\ [][NextSelect]_vars

(***************************************************************************)
(* The KnowledgeBase on its own: update_edge_state called with the state   *)
(* of a road, then get_graph_state for the same road, on the graph_state   *)
(* table init_db creates.                                                  *)
(***************************************************************************)
\* the column lists of graph_state that carry a PRIMARY KEY or UNIQUE
\* constraint or a unique index: edge_id is the primary key, and the two
\* indices on from_intersection and on to_intersection are not unique
GraphStateUniqueColumns == { <<"edge_id">> }

\* the conflict target of the INSERT of insert_or_update_graph_edge
UpsertConflictTarget == <<"from_intersection", "to_intersection">>

\* db_utils.get_graph_state for one road
get_graph_state(rows, from, to) ==
    { r \in rows : r.from_intersection = from /\ r.to_intersection = to }

\* db_utils.insert_or_update_graph_edge: SQLite refuses an ON CONFLICT
\* target that matches no PRIMARY KEY or UNIQUE constraint with an
\* OperationalError; otherwise a new road is inserted and an existing one
\* has its dynamic columns updated
insert_or_update_graph_edge(unique, rows, w) ==
    LET same == get_graph_state(rows, w.from_intersection, w.to_intersection) IN
    IF UpsertConflictTarget \notin unique
    THEN [status |-> "raise", rows |-> rows]
    ELSE IF same = {}
    THEN [status |-> "ok", rows |-> rows \cup {w}]
    ELSE [status |-> "ok",
          rows |-> (rows \ same) \cup
                   { [r EXCEPT !.current_queue = w.current_queue,
                               !.current_delay = w.current_delay,
                               !.spillback_active = w.spillback_active,
                               !.incident_active = w.incident_active,
                               !.last_updated_cycle = w.last_updated_cycle] :
                     r \in same }]

\* the row KnowledgeBase.update_edge_state hands to the upsert: capacity and
\* free_flow_time of the stored row, or the defaults 1.0 and 30.0
EdgeStateRow(rows, from, to, road, cycle) ==
    LET existing == get_graph_state(rows, from, to) IN
    [from_intersection |-> from, to_intersection |-> to,
     capacity |-> IF existing # {} THEN (CHOOSE r \in existing : TRUE).capacity ELSE 1,
     free_flow_time |-> IF existing # {} THEN (CHOOSE r \in existing : TRUE).free_flow_time
                        ELSE 30,
     current_queue |-> road.current_queue, current_delay |-> road.current_delay,
     spillback_active |-> road.spillback_active,
     incident_active |-> road.incident_active,
     last_updated_cycle |-> cycle]

\* KnowledgeBase.update_edge_state
update_edge_state(rows, from, to, road, cycle) ==
    insert_or_update_graph_edge(GraphStateUniqueColumns, rows,
                                EdgeStateRow(rows, from, to, road, cycle))

InitKB == pc = "kb" /\ Constructed

\* the caller upserts the state a road has in the cycle
KBUpdateEdgeState ==
    /\ pc = "kb"
    /\ current_cycle < MaxCycle
    /\ current_cycle' = current_cycle + 1
    /\ \E k \in NetEdgeKeys : \E road \in NetRoadStates :
          LET w == update_edge_state(graph_state, k[1], k[2], road, current_cycle')
          IN /\ graph_state' = w.rows
             /\ kb_call' = [fn |-> "update_edge_state",
                            written |-> EdgeStateRow(graph_state, k[1], k[2], road, current_cycle'),
                            status |-> w.status, returned |-> {}]
    /\ pc' = "kb_written"
    /\ UNCHANGED <<mape_loop, cost_history, runtime_graph, stop_signal, client, bandit_state, failed_collections, nodes, edges, monitor_data, analysis_result, plan,
                   lkg_cache, signal_configurations, performance_window,
                   baseline_utility, execution_result, exec_trace, metrics,
                   reward_log, stages>>

\* the caller reads the road back
KBGetGraphState ==
    /\ pc = "kb_written"
    /\ kb_call' = [kb_call EXCEPT
                     !.fn = "get_graph_state",
                     !.returned = get_graph_state(graph_state,
                                                  kb_call.written.from_intersection,
                                                  kb_call.written.to_intersection)]
    /\ pc' = "kb"
    /\ UNCHANGED <<mape_loop, graph_state, cost_history, runtime_graph, stop_signal, client, bandit_state, failed_collections, current_cycle, nodes, edges, monitor_data,
                   analysis_result, plan, lkg_cache, signal_configurations,
                   performance_window, baseline_utility, execution_result,
                   exec_trace, metrics, reward_log, stages>>

NextKB ==
    \/ KBUpdateEdgeState
    \/ KBGetGraphState

SpecKB == InitKB /\ [][NextKB]_vars

(***************************************************************************)
(* From the lane data of CityFlow to the graph: build_network_from_cityflow *)
(* turns the aggregated lane data into a snapshot, and                     *)
(* Monitor._update_graph_state puts the roads of the snapshot into the     *)
(* graph, writing each to the graph_state table init_db creates.           *)
(***************************************************************************)
MaxObserve == 3

\* edge ids CityFlow reports: two of CITYFLOW_EDGES and one that is not
ObservedEdgeIds == {"AB", "BC", "XY"}

\* graph_utils.CITYFLOW_EDGES, the entries of the ids reported here
CITYFLOW_EDGES == [id \in {"AB", "BC"} |-> IF id = "AB" THEN <<"A", "B">> ELSE <<"B", "C">>]

\* source and target an edge id names
EdgeOfId(id) ==
    IF id = "AB" THEN <<"A", "B">> ELSE IF id = "BC" THEN <<"B", "C">> ELSE <<"X", "Y">>

\* the aggregates _aggregate_lane_data_to_edges keeps per edge id
LaneAggregates ==
    [total_vehicles : {0, 4}, total_waiting : {0, 2}, lane_count : {1, 2}]

\* graph_utils._group_edges_by_source: the road segment of every edge id of
\* CITYFLOW_EDGES, keyed by its endpoints; any other id is skipped with a
\* warning
group_edges_by_source(edge_data) ==
    LET known == { id \in DOMAIN edge_data : id \in DOMAIN CITYFLOW_EDGES } IN
    [k \in { CITYFLOW_EDGES[id] : id \in known } |->
       LET m == edge_data[CHOOSE id \in known : CITYFLOW_EDGES[id] = k] IN
       [current_queue |-> m.total_vehicles,
        current_delay |-> (2 * m.total_waiting) \div m.lane_count,
        spillback_active |-> FALSE, incident_active |-> FALSE,
        free_flow_time |-> 30]]

\* snapshot.intersections of build_network_from_cityflow, in dict order
SnapshotIntersections == <<"A", "B", "C", "D", "E", "1", "2", "3", "4", "5", "6", "7", "8">>

\* the roads of a snapshot in the order _update_graph_state reaches them
RoadsInOrder(snap) ==
    LET RECURSIVE From(_)
        From(j) ==
          IF j > Len(SnapshotIntersections) THEN <<>>
          ELSE SelectSeq(EdgeSeq(snap), LAMBDA k : k[1] = SnapshotIntersections[j]) \o From(j + 1)
    IN From(1)

\* Monitor._update_graph_state from road j on: the road is created or
\* updated in the graph, then KnowledgeBase.update_edge_state is called; an
\* exception of the write ends the loop
RECURSIVE UpdateGraphStateFrom(_, _, _, _, _)
UpdateGraphStateFrom(j, order, snap, cycle, st) ==
    IF j > Len(order) THEN st
    ELSE LET k == order[j]
             g == UpdateGraphEdges(st.edges, RoadsOf(snap, {k}))
             w == update_edge_state(st.rows, k[1], k[2], snap[k], cycle)
         IN IF w.status = "raise"
            THEN [st EXCEPT !.edges = g, !.done = @ \cup {k}, !.raised = TRUE]
            ELSE UpdateGraphStateFrom(j + 1, order, snap, cycle,
                    [st EXCEPT !.edges = g, !.rows = w.rows, !.done = @ \cup {k}])

\* the intersections _update_graph_state has reached when it ends
NodesReached(st, snap) ==
    IF ~st.raised THEN { SnapshotIntersections[j] : j \in 1..Len(SnapshotIntersections) }
    ELSE LET last == CHOOSE j \in 1..Len(SnapshotIntersections) :
                        /\ \E k \in st.done : k[1] = SnapshotIntersections[j]
                        /\ \A k \in st.done : \A l \in 1..Len(SnapshotIntersections) :
                              k[1] = SnapshotIntersections[l] => l <= j
         IN { SnapshotIntersections[j] : j \in 1..last } \cup { k[2] : k \in st.done }

InitObserve == pc = "observe" /\ Constructed

\* the lane data of a cycle arrive and become the snapshot
ObserveSnapshot ==
    /\ pc = "observe"
    /\ current_cycle < MaxObserve
    /\ current_cycle' = current_cycle + 1
    /\ \E ids \in (SUBSET ObservedEdgeIds) \ {{}} :
       \E edge_data \in [ids -> LaneAggregates] :
          monitor_data' = [snapshot |-> Some(group_edges_by_source(edge_data)),
                           incidents |-> {}, edge_data |-> edge_data]
    /\ pc' = "observe_update"
    /\ UNCHANGED <<mape_loop, graph_state, kb_call, cost_history, runtime_graph, stop_signal, client, bandit_state, failed_collections, nodes, edges, analysis_result, plan, lkg_cache,
                   signal_configurations, performance_window, baseline_utility,
                   execution_result, exec_trace, metrics, reward_log, stages>>

\* Monitor.execute from _update_graph_state on: when the write of a road
\* raises, the handler counts a failed collection
ObserveUpdateGraph ==
    /\ pc = "observe_update"
    /\ LET snap == monitor_data.snapshot[1]
           st == UpdateGraphStateFrom(1, RoadsInOrder(snap), snap, current_cycle,
                    [edges |-> edges, rows |-> graph_state, done |-> {}, raised |-> FALSE])
       IN /\ edges' = st.edges
          /\ graph_state' = st.rows
          /\ nodes' = EnsureNodes(nodes, NodesReached(st, snap))
          /\ failed_collections' = IF st.raised THEN failed_collections + 1
                                   ELSE failed_collections
    /\ pc' = "observed"
    /\ UNCHANGED <<mape_loop, kb_call, cost_history, runtime_graph, stop_signal, client, bandit_state, current_cycle, monitor_data, analysis_result, plan, lkg_cache,
                   signal_configurations, performance_window, baseline_utility,
                   execution_result, exec_trace, metrics, reward_log, stages>>

\* Monitor.execute returns
ObserveReturn ==
    /\ pc = "observed"
    /\ monitor_data' = NoMonitorData
    /\ pc' = "observe"
    /\ UNCHANGED <<mape_loop, graph_state, kb_call, cost_history, runtime_graph, stop_signal, client, bandit_state, failed_collections, current_cycle, nodes, edges, analysis_result, plan, lkg_cache,
                   signal_configurations, performance_window, baseline_utility,
                   execution_result, exec_trace, metrics, reward_log, stages>>

NextObserve ==
    \/ ObserveSnapshot
    \/ ObserveUpdateGraph
    \/ ObserveReturn

SpecObserve == InitObserve /\ [][NextObserve]_vars

(***************************************************************************)
(* app.mape.loop.MAPELoop.step with Planner.plan, Planner.observe_outcome, *)
(* Executor.apply_actions and Executor.rollback_if_needed.  Utilities are  *)
(* in hundredths.                                                          *)
(***************************************************************************)
MaxSteps == 3

rollback_threshold == 35
rollback_patience_cycles == 2

\* intersections the Analyzer builds contexts for
ContextSets == { {}, {"I1"}, {"I1", "I2"} }

ContextOrder == <<"I1", "I2">>

\* PhaseLibrary.get_plans_for_intersection, as plan ids: the plans of I1,
\* and the fallback default plan for an intersection without plans
get_plans_for_intersection(i) ==
    IF i = "I1" THEN <<"I1_default", "I1_incident_mode">> ELSE <<"I2_default">>

\* utilities AdaptationGoals.compute_utility returns for the metrics of
\* RecentGlobalMetrics: below the threshold, and the threshold itself
UtilityLevels == {20, 35}

\* a function with the entries of f replaced or extended by those of g
Overwrite(f, g) ==
    [i \in (DOMAIN f) \cup (DOMAIN g) |-> IF i \in DOMAIN g THEN g[i] ELSE f[i]]

\* graph.nodes[i]["current_plan_id"] = plan_id for every entry of plans,
\* after graph.add_node(i) for a missing node
SetNodePlans(g, plans) ==
    [i \in (DOMAIN g) \cup (DOMAIN plans) |->
       IF i \in DOMAIN plans
       THEN [(IF i \in DOMAIN g THEN g[i] ELSE BareNode) EXCEPT
                !.current_plan_id = Some(plans[i])]
       ELSE g[i]]

\* the plans of a list of actions by intersection
PlansOf(actions) ==
    [i \in { actions[k].intersection_id : k \in 1..Len(actions) } |->
       actions[CHOOSE k \in 1..Len(actions) : actions[k].intersection_id = i].plan_id]

\* Planner.observe_outcome, called by MAPELoop._observe_reward when the
\* metrics are not empty: bandit.observe for every entry of _last_actions,
\* then _last_actions.clear()
observe_outcome(ml) ==
    [ml EXCEPT
       !.observed = @ \o [k \in 1..Len(ml.last_actions) |->
                            [intersection_id |-> ml.last_actions[k].intersection_id,
                             plan_id |-> ml.last_actions[k].plan_id,
                             planned_step |-> ml.last_actions[k].step,
                             latest_plan_step |-> ml.plan_step,
                             observed_step |-> ml.step]],
       !.last_actions = <<>>]

\* the last n entries of s
LastN(s, n) == IF Len(s) <= n THEN s ELSE SubSeq(s, Len(s) - n + 1, Len(s))

\* Executor._perform_rollback
perform_rollback(ml) ==
    IF ml.last_safe_plan = <<>> THEN ml
    ELSE [ml EXCEPT !.last_applied_plan = ml.last_safe_plan, !.restored = TRUE]

\* a check that leaves the streak as it is when the utility is at or above
\* the threshold
RollbackKeepsStreak(ml) ==
    IF ml.metrics = None THEN ml
    ELSE IF ml.metrics[1] >= rollback_threshold
    THEN [ml EXCEPT !.last_safe_plan = IF ml.last_applied_plan # <<>>
                                       THEN ml.last_applied_plan ELSE @,
                    !.checks = LastN(Append(@, "ok"), rollback_patience_cycles)]
    ELSE LET low == [ml EXCEPT !.low_utility_streak = @ + 1,
                               !.checks = LastN(Append(@, "low"), rollback_patience_cycles)]
         IN IF low.low_utility_streak < rollback_patience_cycles THEN low
            ELSE [perform_rollback(low) EXCEPT !.low_utility_streak = 0,
                                               !.rolled_back = TRUE]

\* Executor.rollback_if_needed; checks keeps the outcomes of the last
\* checks that had a utility
rollback_if_needed(ml) ==
    IF ml.metrics = None THEN ml
    ELSE IF ml.metrics[1] >= rollback_threshold
    THEN [ml EXCEPT !.low_utility_streak = 0,
                    !.last_safe_plan = IF ml.last_applied_plan # <<>>
                                       THEN ml.last_applied_plan ELSE @,
                    !.checks = LastN(Append(@, "ok"), rollback_patience_cycles)]
    ELSE LET low == [ml EXCEPT !.low_utility_streak = @ + 1,
                               !.checks = LastN(Append(@, "low"), rollback_patience_cycles)]
         IN IF low.low_utility_streak < rollback_patience_cycles THEN low
            ELSE [perform_rollback(low) EXCEPT !.low_utility_streak = 0,
                                               !.rolled_back = TRUE]

StepUnchanged ==
    UNCHANGED <<graph_state, kb_call, cost_history, stop_signal, client, bandit_state, failed_collections, current_cycle,
                nodes, edges, monitor_data, analysis_result, plan, lkg_cache,
                signal_configurations, performance_window, baseline_utility,
                execution_result, exec_trace, metrics, reward_log, stages>>

InitStep == pc = "step" /\ Constructed

\* MAPELoop._poll_simulator returns; the metrics RecentGlobalMetrics holds
\* for this step are whatever the snapshots received so far made them
StepPoll ==
    /\ pc = "step"
    /\ mape_loop.step < MaxSteps
    /\ \E m \in {None} \cup { Some(u) : u \in UtilityLevels } :
          mape_loop' = [mape_loop EXCEPT !.step = @ + 1, !.metrics = m,
                                         !.applied_at_poll = mape_loop.last_applied_plan,
                                         !.rolled_back = FALSE, !.restored = FALSE]
    /\ pc' = "step_observe"
    /\ UNCHANGED runtime_graph
    /\ StepUnchanged

\* Monitor.handle_snapshot raises (an edge id without "->"): the handler of
\* step logs the exception and the step is over
StepPollRaises ==
    /\ pc = "step"
    /\ mape_loop.step < MaxSteps
    /\ mape_loop' = [mape_loop EXCEPT !.step = @ + 1, !.rolled_back = FALSE,
                                      !.restored = FALSE]
    /\ UNCHANGED <<pc, runtime_graph>>
    /\ StepUnchanged

\* MAPELoop._observe_reward
StepObserveReward ==
    /\ pc = "step_observe"
    /\ mape_loop' = IF mape_loop.metrics = None \/ mape_loop.last_actions = <<>>
                    THEN mape_loop
                    ELSE observe_outcome(mape_loop)
    /\ pc' = "step_analyze"
    /\ UNCHANGED runtime_graph
    /\ StepUnchanged

\* Analyzer.analyze: the contexts of the intersections of the graph
StepAnalyze ==
    /\ pc = "step_analyze"
    /\ \E c \in ContextSets : mape_loop' = [mape_loop EXCEPT !.contexts = c]
    /\ pc' = "step_plan"
    /\ UNCHANGED runtime_graph
    /\ StepUnchanged

\* Planner.plan: _last_actions is cleared, then one action per context; the
\* epsilon-greedy bandit may return any candidate
StepPlan ==
    /\ pc = "step_plan"
    /\ LET ids == SelectSeq(ContextOrder, LAMBDA i : i \in mape_loop.contexts) IN
       \E choice \in [1..Len(ids) -> 1..2] :
          /\ \A k \in 1..Len(ids) : choice[k] <= Len(get_plans_for_intersection(ids[k]))
          /\ LET actions == [k \in 1..Len(ids) |->
                               [intersection_id |-> ids[k],
                                plan_id |-> get_plans_for_intersection(ids[k])[choice[k]],
                                step |-> mape_loop.step]]
             IN mape_loop' = [mape_loop EXCEPT !.actions = actions,
                                               !.last_actions = actions,
                                               !.prev_plan = actions,
                                               !.plan_step = mape_loop.step]
    /\ pc' = "step_apply"
    /\ UNCHANGED runtime_graph
    /\ StepUnchanged

\* Executor.apply_actions
StepApplyActions ==
    /\ pc = "step_apply"
    /\ mape_loop' = [mape_loop EXCEPT
                       !.last_applied_plan = Overwrite(@, PlansOf(mape_loop.actions))]
    /\ runtime_graph' = [runtime_graph EXCEPT
                           !.nodes = SetNodePlans(@, PlansOf(mape_loop.actions))]
    /\ pc' = "step_rollback"
    /\ StepUnchanged

\* Executor.rollback_if_needed, the last call of the step
StepRollbackIfNeeded ==
    /\ pc = "step_rollback"
    /\ mape_loop' = rollback_if_needed(mape_loop)
    /\ runtime_graph' = IF mape_loop'.restored
                        THEN [runtime_graph EXCEPT
                                !.nodes = SetNodePlans(@, mape_loop.last_safe_plan)]
                        ELSE runtime_graph
    /\ pc' = "step"
    /\ StepUnchanged

NextStep ==
    \/ StepPoll
    \/ StepPollRaises
    \/ StepObserveReward
    \/ StepAnalyze
    \/ StepPlan
    \/ StepApplyActions
    \/ StepRollbackIfNeeded

SpecStep == InitStep /\ [][NextStep]_vars

(***************************************************************************)
(* Properties                                                              *)
(***************************************************************************)
\* C1: every signal-timing call sent to the simulator, by the apply loop or
\* by a rollback, names a signalised intersection; none names a virtual one.
C1_CallsOnlySignalised ==
    \A c \in exec_trace.calls :
        /\ c.intersection_id \in signalized_intersections
        /\ c.intersection_id \notin virtual_nodes

\* an Execute that applied a batch and then re-applied LKG plans
C1_Witness ==
    /\ pc = "executed"
    /\ \E c \in exec_trace.calls : c.kind = "apply"
    /\ \E c \in exec_trace.calls : c.kind = "rollback"

\* C2: when some adaptation of the batch fails a validation check, Execute
\* makes no simulator call, changes no node, persists no configuration,
\* leaves LKG as it is and returns applied = [] and rolled_back = false.
C2_InvalidBatchNotApplied ==
    [][ ( /\ pc = "execute"
          /\ \E k \in 1..Len(plan.adaptations) :
                LET a == plan.adaptations[k] IN
                \/ a.intersection_id \notin signalized_intersections
                \/ a.phase_id < 0 \/ a.phase_id > MaxPhaseId
                \/ a.offset < 0 \/ a.offset > MaxOffset )
        => ( /\ exec_trace'.calls = {}
             /\ nodes' = nodes
             /\ signal_configurations' = signal_configurations
             /\ lkg_cache' = lkg_cache
             /\ execution_result'.applied = <<>>
             /\ execution_result'.rolled_back = FALSE ) ]_vars

\* a rejected batch that leads with a valid adaptation, met when a plan is
\* on the node and LKG is not empty
C2_Witness ==
    /\ pc = "executed"
    /\ Len(plan.adaptations) = 2
    /\ ValidAdaptation(plan.adaptations[1])
    /\ ~ValidAdaptation(plan.adaptations[2])
    /\ exec_trace.ran /\ ~exec_trace.validated
    /\ "A" \in DOMAIN nodes /\ nodes["A"].current_plan_id # None
    /\ "A" \in DOMAIN lkg_cache

\* C3: after an Execute that reports a rollback, every signalised
\* intersection of the graph that had an LKG record carries the plan of
\* that record.
C3_RollbackRestoresLKG ==
    (pc = "executed" /\ execution_result.rolled_back) =>
        \A i \in signalized_intersections \cap DOMAIN nodes :
            exec_trace.lkg_before[i].kind = "lkg" =>
                nodes[i].current_plan_id = Some(exec_trace.lkg_before[i].config.plan_id)

\* C4: once a baseline (other than 0) exists, a check whose window average
\* lies below the baseline by more than the threshold share of |baseline|
\* returns true.
C4_DegradationTriggersRollback ==
    [][ ( /\ pc = "rollback_manager"
          /\ baseline_utility # None
          /\ baseline_utility[1] # 0
          /\ Len(performance_window') = rollback_window_size
          /\ LET b == baseline_utility[1]
                 n == Len(performance_window')
                 absb == IF b < 0 THEN 0 - b ELSE b
             IN DegradationThresholdDen * (n * b - SumSeq(performance_window'))
                  > DegradationThresholdNum * n * absb )
        => exec_trace'.check = "true" ]_vars

\* C5: an LKG record is only ever written with an adaptation of the applied
\* list of an Execute that did not roll back.
C5_LKGOnlyAppliedPlans ==
    [][ \A i \in DOMAIN lkg_cache' :
          (i \notin DOMAIN lkg_cache \/ lkg_cache'[i] # lkg_cache[i]) =>
             /\ lkg_cache'[i].kind = "lkg"
             /\ ~execution_result'.rolled_back
             /\ \E k \in 1..Len(execution_result'.applied) :
                   execution_result'.applied[k] = lkg_cache'[i].config ]_vars

\* C6: when Execute has applied adaptations and returned without rollback,
\* the LKG record of every intersection of the applied list carries the
\* number of the cycle.
C6_LKGCycleIsCurrent ==
    (pc = "executed" /\ execution_result.has_metrics /\ ~execution_result.rolled_back) =>
        \A k \in 1..Len(execution_result.applied) :
            LET v == LKGValue(lkg_cache, signal_configurations,
                              execution_result.applied[k].intersection_id)
            IN v.kind = "lkg" /\ v.cycle = current_cycle

\* two intersections applied in a cycle after the first, no rollback
C6_Witness ==
    /\ pc = "executed"
    /\ current_cycle >= 2
    /\ execution_result.has_metrics /\ ~execution_result.rolled_back
    /\ Len(execution_result.applied) = 2

\* C7: after a rollback the LKG record of every intersection is the one it
\* was before the rollback.
C7_RollbackKeepsLKG ==
    exec_trace.rollback.ran =>
        LKGView(lkg_cache, signal_configurations) = exec_trace.lkg_before

\* a rollback that put an LKG plan back on a node that carried another plan
C7_Witness ==
    /\ pc = "executed"
    /\ exec_trace.rollback.ran
    /\ exec_trace.rollback.restored # {}
    /\ nodes # exec_trace.nodes_before

\* C8: a degradation met while no signalised intersection of the network
\* has an LKG record re-applies nothing, changes no node, and is not
\* reported to the caller as a rollback.
C8_NoLKGRollbackSurfaced ==
    ( /\ pc = "executed"
      /\ exec_trace.rollback.ran
      /\ \A i \in signalized_intersections \cap DOMAIN nodes :
            exec_trace.lkg_before[i].kind = "none" ) =>
        /\ nodes = exec_trace.nodes_before
        /\ \A c \in exec_trace.calls : c.kind # "rollback"
        /\ execution_result.rolled_back = FALSE

\* C9: a cycle that has ended, by reaching the loop head again or by
\* leaving the loop, has run the seven stages once each, in order.
C9_AllStagesInOrder ==
    (current_cycle > 0 /\ pc \in {"loop", "exited", "crashed"}) =>
        stages = <<"MONITOR", "ANALYZE", "PLAN", "EXECUTE", "METRICS",
                   "REWARD_UPDATE", "SLEEP">>

\* C10: a reward is delivered in the cycle after the one in which its arm
\* was pulled, never in the same cycle.
C10_RewardNextCycle ==
    \A k \in 1..Len(reward_log) :
        reward_log[k].delivered_cycle = reward_log[k].pulled_cycle + 1

\* C11: a cycle that pulled arms and has ended its reward stage, or has
\* ended without one, has called bandit.update_reward exactly once for each
\* arm of the plan and for no other arm, with reward
\* -network_cost - 10 * spillback_count.
C11_RewardOncePerPulledArm ==
    (pc \in {"sleep", "crashed"} /\ plan.adaptations # <<>>) =>
        /\ \A k \in 1..Len(plan.adaptations) :
              Cardinality({ j \in 1..Len(reward_log) :
                  /\ reward_log[j].intersection_id = plan.adaptations[k].intersection_id
                  /\ reward_log[j].plan_id = plan.adaptations[k].plan_id }) = 1
        /\ \A j \in 1..Len(reward_log) :
              /\ \E k \in 1..Len(plan.adaptations) :
                    /\ reward_log[j].intersection_id = plan.adaptations[k].intersection_id
                    /\ reward_log[j].plan_id = plan.adaptations[k].plan_id
              /\ reward_log[j].reward =
                    0 - metrics[1].network_cost
                      - CostScale * 10 * metrics[1].total_spillbacks

\* C12: the statistics of every arm that has been selected satisfy
\* avg_reward = total_reward / times_selected.
C12_AverageIsTotalOverCount ==
    \A arm \in BanditArms :
        LET st == get_arm_stats(bandit_state, arm) IN
        st.times_selected > 0 => st.avg_reward * st.times_selected = st.total_reward

\* an arm that has been rewarded more than once and carries a reward
C12_Witness ==
    /\ pc = "bandit"
    /\ reward_log # <<>>
    /\ reward_log[1].stats_before.times_selected > 0
    /\ get_arm_stats(bandit_state, Arm(reward_log[1].intersection_id,
                                       reward_log[1].plan_id)).total_reward # 0

C14_FailedMonitorLeavesGraph ==
    [][ (pc = "monitor" /\ pc' = "analyze" /\ monitor_data'.snapshot = None) =>
          /\ failed_collections' = failed_collections + 1
          /\ nodes' = nodes
          /\ edges' = edges ]_vars

C16_FailedWriteSwallowed ==
    [][ ( \/ (pc = "monitor" /\ pc' # "monitor" /\ monitor_data'.snapshot = None
               /\ edges' # edges)
          \/ AnalyzeWriteRaises
          \/ PlanWriteRaises
          \/ (pc = "execute" /\ \E k \in DOMAIN exec_trace'.outcomes :
                                    exec_trace'.outcomes[k].store = "raise")
          \/ MetricsWriteRaises ) => pc' # "crashed" ]_vars

\* C17: a simulator request makes at most three attempts, none after one
\* that got a response, with one retry delay between consecutive attempts and
\* none after the last; when the last attempt has failed the call returns
\* None, and whatever the outcome the caller sees a snapshot, "no snapshot",
\* "applied" or "apply failed", never an exception.
C17_AtMostThreeAttemptsThenNoResult ==
    LET attempts == { k \in 1..Len(client.log) : client.log[k] = "attempt" } IN
    /\ Cardinality(attempts) <= 3
    /\ \A k \in 1..Len(client.log) :
          client.log[k] = (IF k % 2 = 1 THEN "attempt" ELSE "sleep")
    /\ client.status \in {"returned", "raised"} =>
          /\ client.log[Len(client.log)] = "attempt"
          /\ client.seen \in {"snapshot", "no snapshot", "applied", "apply failed"}
          /\ client.result \notin {"success", "refused"} =>
                client.seen \in {"no snapshot", "apply failed"}
    /\ (client.status = "returned" /\ client.result \notin {"success", "refused"}) =>
          (Cardinality(attempts) = 3 /\ client.result = "None")
    /\ ~(client.status = "running" /\ Cardinality(attempts) = 3)

\* a request that failed three times and returned None
C17_Witness ==
    /\ client.status = "returned"
    /\ client.result = "None"
    /\ client.log = <<"attempt", "sleep", "attempt", "sleep", "attempt">>

C19_NoStageAfterCancel ==
    [][ (stop_signal # "none" /\ pc \notin {"loop", "exited", "crashed"}) =>
          Len(stages') <= Len(stages) ]_vars

\* C20: every step that changes the nodes or the edges of the Runtime Graph
\* is taken while the function taking it holds the lock of the graph.
C20_MutationsHoldLock ==
    [][ ( \/ runtime_graph'.nodes # runtime_graph.nodes
          \/ runtime_graph'.edges # runtime_graph.edges ) =>
          ( /\ runtime_graph.lock # "free"
            /\ runtime_graph.lock = runtime_graph.task.fn ) ]_vars

\* C21: the hotspot edge a bypass record names in 'bypasses' is not an edge
\* of the record's path.
C21_BypassAvoidsHotspot ==
    \A j \in 1..Len(analysis_result.bypasses) :
        LET b == analysis_result.bypasses[j] IN
        \A m \in 1..Len(b.path) : b.path[m] # b.bypasses

\* a bypass record exists although the path search also returned a path
\* through the hotspot edge, beyond its first edge
C21_Witness ==
    /\ pc = "plan"
    /\ \E j \in 1..Len(analysis_result.bypasses) :
          LET b == analysis_result.bypasses[j] IN
          \E q \in SimplePaths(edges, b.source, b.destination) :
             /\ UsesHotspot(q, b.bypasses)
             /\ <<q[1], q[2]>> # b.bypasses

\* C24: when the plan of some adaptation is not in the phase library of its
\* intersection, the batch fails validation and Execute sends nothing to
\* the simulator and applies nothing.
C24_OffLibraryPlanRejected ==
    [][ ( /\ pc = "execute"
          /\ \E k \in 1..Len(plan.adaptations) : ~InLibrary(plan.adaptations[k]) )
        => ( /\ ~exec_trace'.validated
             /\ exec_trace'.calls = {}
             /\ execution_result'.applied = <<>> ) ]_vars

\* C22: every adaptation of a coordinated plan has an offset between 0 and
\* 300 seconds.
C22_CoordinatedOffsetsInRange ==
    (pc = "execute" /\ plan.source = "planner") =>
        \A k \in 1..Len(plan.adaptations) :
            plan.adaptations[k].offset >= 0 /\ plan.adaptations[k].offset <= MaxOffset

\* C23: in a coordinated plan the first member of every coordination group
\* has offset 0, and the offset of a later member is the offset of an
\* earlier member plus the travel times of the group between them, so the
\* offsets do not decrease along the group.
C23_OffsetsAccumulateAlongGroup ==
    ( /\ pc = "execute" /\ plan.source = "planner"
      /\ analysis_result.incidents = {} /\ Len(plan.adaptations) > 1 ) =>
        LET groups == CoordinationGroups(analysis_result.bypasses)
            has(id) == AdaptationIndex(plan.adaptations, id) # 0
            off(id) == plan.adaptations[AdaptationIndex(plan.adaptations, id)].offset
        IN \A n \in 1..Len(groups) :
             LET gr == groups[n] IN
             /\ has(gr[1]) => off(gr[1]) = 0
             /\ \A i, j \in 1..Len(gr) :
                   (i < j /\ has(gr[i]) /\ has(gr[j])) =>
                      off(gr[j]) = off(gr[i])
                        + SumSeq([m \in 1..(j - i) |-> TravelTime(edges, gr[i + m - 1], gr[i + m])])

\* the snapshot of the cycle reports no queue, no delay, no spillback and
\* no incident on any road
IdleSnapshot ==
    /\ monitor_data.snapshot # None
    /\ \A k \in DOMAIN monitor_data.snapshot[1] :
          /\ monitor_data.snapshot[1][k].current_queue = 0
          /\ monitor_data.snapshot[1][k].current_delay = 0
          /\ ~monitor_data.snapshot[1][k].spillback_active
          /\ ~monitor_data.snapshot[1][k].incident_active

\* C25: in a cycle whose snapshot shows an idle network the Planner plans
\* no adaptation and Execute applies none, does not roll back and leaves
\* the last-known-good records as they are.
C25_IdleNetworkNoAdaptation ==
    /\ [][ (pc = "plan" /\ IdleSnapshot) => plan'.adaptations = <<>> ]_vars
    /\ [][ (pc = "execute" /\ IdleSnapshot) =>
              ( /\ execution_result'.applied = <<>>
                /\ execution_result'.rolled_back = FALSE
                /\ lkg_cache' = lkg_cache
                /\ signal_configurations' = signal_configurations ) ]_vars

\* C26: a cycle on the empty graph ends without an exception, and its
\* stages return empty results: no hotspot, no bypass, no adaptation
\* planned, nothing applied.
C26_EmptyGraphEmptyResults ==
    /\ [][ (pc = "analyze" /\ edges = <<>>) =>
              (pc' = "plan" => /\ analysis_result'.hotspots = {}
                               /\ analysis_result'.bypasses = <<>>
                               /\ analysis_result'.edge_costs = <<>>) ]_vars
    /\ [][ (pc = "plan" /\ edges = <<>>) => plan'.adaptations = <<>> ]_vars
    /\ [][ (pc = "execute" /\ edges = <<>>) =>
              (pc' # "crashed" /\ execution_result'.applied = <<>>) ]_vars

C30_LKGCycleMonotone ==
    [][ \A i \in signalized_intersections :
          LKGValue(lkg_cache, signal_configurations, i) # NoLKG =>
             /\ LKGValue(lkg_cache', signal_configurations', i) # NoLKG
             /\ LKGCycle(LKGValue(lkg_cache', signal_configurations', i))
                   >= LKGCycle(LKGValue(lkg_cache, signal_configurations, i)) ]_vars

\* one intersection is served from the table (its row was stored in a cycle
\* that rolled back) while another is served from the cache with the number
\* of a later cycle than its first
C30_Witness ==
    /\ pc = "executed"
    /\ \E i \in signalized_intersections :
          LKGValue(lkg_cache, signal_configurations, i) # NoLKG
          /\ LKGValue(lkg_cache, signal_configurations, i).kind = "row"
    /\ \E j \in signalized_intersections :
          /\ LKGValue(lkg_cache, signal_configurations, j) # NoLKG
          /\ LKGValue(lkg_cache, signal_configurations, j).kind = "lkg"
          /\ LKGCycle(LKGValue(lkg_cache, signal_configurations, j)) >= 2

\* C29: when Analyze runs again on a graph whose roads are as the previous
\* analysis left them, it returns the same edge costs, the same hotspots and
\* the same trends as the previous analysis.
C29_ReanalysisIdentical ==
    [][ (pc = "analyze" /\ analysis_result # NoAnalysis /\ edges' = edges) =>
          /\ analysis_result'.edge_costs = analysis_result.edge_costs
          /\ analysis_result'.hotspots = analysis_result.hotspots
          /\ analysis_result'.trends = analysis_result.trends ]_vars

\* C28: get_graph_state after update_edge_state returns exactly the row that
\* was written; and an upsert of a road that is already stored keeps the
\* capacity and the free-flow time of the stored row.
C28_UpsertThenGetReturnsWritten ==
    /\ [][ (pc = "kb_written" /\ pc' = "kb") =>
              kb_call'.returned = { kb_call.written } ]_vars
    /\ [][ (pc = "kb" /\ pc' = "kb_written") =>
              \A r \in graph_state :
                 \E q \in graph_state' :
                    /\ q.from_intersection = r.from_intersection
                    /\ q.to_intersection = r.to_intersection
                    /\ q.capacity = r.capacity
                    /\ q.free_flow_time = r.free_flow_time ]_vars

\* C31: whenever a consumer is about to read edge costs (the Planner, the
\* Executor with its rollback utility, the metrics, the reward), the cost
\* stored on every edge and the cost in the analysis result equal the cost
\* formula applied to the attributes the edge has in that cycle.
C31_CostsCurrentWhenRead ==
    (pc \in {"plan", "execute", "executed", "reward_update"}) =>
        /\ \A k \in DOMAIN edges : edges[k].edge_cost = EdgeCost(edges[k])
        /\ DOMAIN analysis_result.edge_costs = DOMAIN edges
        /\ \A k \in DOMAIN edges : analysis_result.edge_costs[k] = EdgeCost(edges[k])
        /\ (pc = "reward_update" /\ metrics # None) =>
              metrics[1].network_cost =
                 SumOver(DOMAIN edges, [k \in DOMAIN edges |-> EdgeCost(edges[k])])

\* the metrics of a cycle after the first have been computed on a road whose
\* cost differs from the cost it had in the first cycle
C31_Witness ==
    /\ pc = "reward_update"
    /\ metrics # None
    /\ current_cycle >= 2
    /\ \E k \in DOMAIN edges :
          /\ k \in DOMAIN cost_history
          /\ Len(cost_history[k]) >= 2
          /\ cost_history[k][1] # edges[k].edge_cost

\* C32: a check never raises, and it never returns true when the average of
\* the window it has just filled is at or above the baseline it compares
\* against.
C32_NoRollbackAtOrAboveBaseline ==
    [][ (pc = "rollback_manager") =>
          /\ pc' # "crashed"
          /\ exec_trace'.check # "ZeroDivisionError"
          /\ ( /\ baseline_utility # None
               /\ Len(performance_window') = rollback_window_size
               /\ SumSeq(performance_window')
                    >= Len(performance_window') * baseline_utility[1] )
             => exec_trace'.check # "true" ]_vars

\* C33: while the window holds fewer than rollback_window_size utilities
\* there is no baseline and no check returns true; the check that fills the
\* window for the first time takes its utility as the baseline and returns
\* false; afterwards the baseline stays, or is replaced by the utility of
\* the check when that utility is strictly higher.
C33_BaselineMonotone ==
    [][ (pc = "rollback_manager") =>
          LET w2 == performance_window'
              u  == w2[Len(w2)]
          IN /\ Len(w2) < rollback_window_size =>
                   (baseline_utility' = None /\ exec_trace'.check = "false")
             /\ (baseline_utility = None /\ Len(w2) = rollback_window_size) =>
                   (baseline_utility' = Some(u) /\ exec_trace'.check = "false")
             /\ baseline_utility # None =>
                   /\ baseline_utility' # None
                   /\ \/ baseline_utility' = baseline_utility
                      \/ /\ baseline_utility' = Some(u)
                         /\ u > baseline_utility[1] ]_vars

\* a baseline above the two older utilities of the window: the utility of
\* the last check, which returned false
C33_Witness ==
    /\ pc = "rollback_manager"
    /\ baseline_utility # None
    /\ Len(performance_window) = rollback_window_size
    /\ exec_trace.check = "false"
    /\ baseline_utility[1] = performance_window[3]
    /\ performance_window[1] < performance_window[2]
    /\ performance_window[2] < performance_window[3]

\* C34: an analysis of a graph on which every edge has cost 0 returns no
\* hotspot and adaptation_needed = false.
C34_ZeroCostsNoHotspot ==
    [][ (pc = "analyze" /\ pc' = "plan"
         /\ \A k \in DOMAIN edges' : edges'[k].edge_cost = 0) =>
          ( /\ analysis_result'.hotspots = {}
            /\ ~adaptation_needed(analysis_result') ) ]_vars

\* the arms of intersection i that have no statistics yet
UnseenPlans(i) ==
    { n \in PlanNames : get_arm_stats(bandit_state, Arm(i, PlanId(i, n))).times_selected = 0 }

\* the arm <<i, pid>> has been rewarded
Pulled(i, pid) ==
    \E j \in 1..Len(reward_log) :
       reward_log[j].intersection_id = i /\ reward_log[j].plan_id = pid

C36_CacheAgreesWithStore ==
    \A i \in signalized_intersections :
       LKGValue(lkg_cache, signal_configurations, i)
          = LKGValue(<<>>, signal_configurations, i)

\* C37: every edge CityFlow reports in a cycle, its id known to
\* CITYFLOW_EDGES or not, is in the graph when Monitor.execute returns, with
\* the reported queue and delay.
C37_ObservedEdgeCreated ==
    (pc = "observed") =>
       \A id \in DOMAIN monitor_data.edge_data :
          /\ EdgeOfId(id) \in DOMAIN edges
          /\ edges[EdgeOfId(id)].current_queue = monitor_data.edge_data[id].total_vehicles
          /\ edges[EdgeOfId(id)].current_delay =
                (2 * monitor_data.edge_data[id].total_waiting)
                   \div monitor_data.edge_data[id].lane_count

\* the observations of the action planned for intersection i in step n
ObservationsOf(i, n) ==
    { j \in 1..Len(mape_loop.observed) :
        /\ mape_loop.observed[j].intersection_id = i
        /\ mape_loop.observed[j].planned_step = n }

\* C38: when a step of the async loop computes its new plan, every action of
\* the previous plan has been observed exactly once, and no observation ever
\* is for a plan older than the latest one or is delivered a second time.
C38_PreviousActionsObservedOnce ==
    /\ pc = "step_plan" =>
          \A k \in 1..Len(mape_loop.prev_plan) :
             Cardinality(ObservationsOf(mape_loop.prev_plan[k].intersection_id,
                                        mape_loop.prev_plan[k].step)) = 1
    /\ \A j \in 1..Len(mape_loop.observed) :
          /\ mape_loop.observed[j].planned_step = mape_loop.observed[j].latest_plan_step
          /\ Cardinality(ObservationsOf(mape_loop.observed[j].intersection_id,
                                        mape_loop.observed[j].planned_step)) = 1

\* C39: whenever a rollback check of the async executor changes the last-safe
\* plan, every entry it records is a plan that was already in force when the
\* utility of the check was measured (or was safe before): a plan first applied
\* in the current step is never recorded as safe.
C39_SafePlanWasEvaluated ==
    [][ (pc = "step_rollback" /\ mape_loop'.last_safe_plan # mape_loop.last_safe_plan) =>
          \A i \in DOMAIN mape_loop'.last_safe_plan :
             \/ /\ i \in DOMAIN mape_loop.applied_at_poll
                /\ mape_loop'.last_safe_plan[i] = mape_loop.applied_at_poll[i]
             \/ /\ i \in DOMAIN mape_loop.last_safe_plan
                /\ mape_loop'.last_safe_plan[i] = mape_loop.last_safe_plan[i] ]_vars

\* C40: in a rollback check of the async executor, a rollback happens only
\* when the last `patience` checks that had a utility were all below the
\* threshold, and it leaves the streak at zero; a check at or above the
\* threshold sets the streak to zero and rolls nothing back; a check below the
\* threshold that does not roll back adds one to the streak; a check without
\* a utility changes nothing.
C40_RollbackAfterPatience ==
    [][ pc = "step_rollback" =>
          /\ mape_loop'.rolled_back =>
                /\ Len(mape_loop'.checks) = rollback_patience_cycles
                /\ \A k \in 1..Len(mape_loop'.checks) : mape_loop'.checks[k] = "low"
                /\ mape_loop'.low_utility_streak = 0
          /\ (mape_loop.metrics # None /\ mape_loop.metrics[1] >= rollback_threshold) =>
                /\ mape_loop'.low_utility_streak = 0
                /\ ~mape_loop'.rolled_back
          /\ (mape_loop.metrics # None /\ mape_loop.metrics[1] < rollback_threshold
                /\ ~mape_loop'.rolled_back) =>
                mape_loop'.low_utility_streak = mape_loop.low_utility_streak + 1
          /\ mape_loop.metrics = None =>
                /\ mape_loop'.low_utility_streak = mape_loop.low_utility_streak
                /\ ~mape_loop'.rolled_back ]_vars

\* a rollback that restored a recorded safe plan, after two low checks
C40_Witness ==
    /\ pc = "step"
    /\ mape_loop.rolled_back
    /\ mape_loop.restored
    /\ mape_loop.low_utility_streak = 0
    /\ mape_loop.checks = <<"low", "low">>

====
